---- MODULE Spec2Model ----
(***************************************************************************)
(* Model of apix: the manifest-driven template rendering and request       *)
(* execution pipeline (src/execute.rs, src/template.rs, src/dialog.rs,     *)
(* src/requests.rs), and the functions around it: content classification  *)
(* (src/http_utils.rs), the exec subcommand (src/main.rs), configurations  *)
(* (src/manifests/config.rs, src/config.rs) and name:value arguments       *)
(* (src/validators.rs, src/match_params.rs).                               *)
(*                                                                         *)
(* Spec is handle_execute; SpecRender, SpecRenderMap, SpecLanguage,        *)
(* SpecRequest, SpecStream, SpecMain, SpecConfig, SpecParam and SpecAsk    *)
(* each apply one function to bounded arguments held in `call` and log     *)
(* what it returns in `ret`.  SpecCommand is a config subcommand of main,  *)
(* step by step, with the process and the CONFIG mutex held in `ret`.      *)
(*                                                                         *)
(* Strings are sequences of atoms.  An atom is a piece of literal text     *)
(* ("a", "7", "\"", "true") or one whole template tag ("{{context.test}}", *)
(* or "{{" for a tag that is never closed).  No atom can be spelled with   *)
(* other atoms, so two different sequences are two different strings.      *)
(* Option<T> is a sequence of length 0 (None) or 1 (Some).                 *)
(***************************************************************************)
EXTENDS Integers, Sequences, FiniteSets, TLC

VARIABLES
  manifest,   \* the ApixManifest handed to handle_execute
  params,     \* Option<IndexMap<String, String>>: the parameters given on the command line
  options,    \* the RequestOptions built from the command line
  env,        \* std::env::vars()
  pc,         \* the position of handle_execute
  template,   \* the RequestTemplate: engine, context and the three directives
  rendered,   \* the RequestParams rendered so far, field by field
  asked,      \* the names of the parameters the user was prompted for, in order
  steps,      \* the steps handle_execute has run, in order
  requests,   \* the invocations of make_request
  result,     \* Option: how handle_execute ended
  call,       \* a function on its own: the arguments of the call
  ret         \* what make_request did; a function on its own: the results of
              \* the successive calls; a config subcommand: the process

\* ------------------------------------------------------------------------
\* Bounds
\* ------------------------------------------------------------------------
MaxDepth == 2      \* nesting depth of the JSON values handed to render_value
MaxRenders == 2    \* successive render_value calls on one engine
MaxParams == 2     \* declared parameters of a request manifest
MaxEntries == 2    \* entries of a map handed to render_map
MaxKeywords == 2   \* subtype words of a Content-Type handed to get_language
MaxHeaders == 2    \* entries of the header map handed to make_request
MaxConfigKeys == 2 \* keys of a configuration that is loaded
MaxParamLen == 4   \* characters of a name:value string of the command line
MaxFileLen == 3    \* bytes of the file that is uploaded
MaxFrame == 2      \* bytes of a frame read from the file that is uploaded
MaxTyped == 3      \* lines the user types at one prompt

\* ------------------------------------------------------------------------
\* Option, serde_json::Value
\* ------------------------------------------------------------------------
None == << >>
Some(x) == << x >>

ValueNull == [kind |-> "null", val |-> 0]
ValueBool(b) == [kind |-> "bool", val |-> b]
ValueNumber(n) == [kind |-> "num", val |-> n]
ValueString(s) == [kind |-> "str", val |-> s]
ValueArray(arr) == [kind |-> "arr", val |-> arr]
\* an object is its entries, [key, value], in the map's iteration order
ValueObject(obj) == [kind |-> "obj", val |-> obj]

Entry(k, v) == [key |-> k, value |-> v]

\* the position of key k in a sequence of entries, 0 when absent
RECURSIVE IndexOfKey(_, _, _)
IndexOfKey(entries, k, i) ==
  IF i > Len(entries) THEN 0
  ELSE IF entries[i].key = k THEN i
  ELSE IndexOfKey(entries, k, i + 1)

MapGet(entries, k) ==
  LET i == IndexOfKey(entries, k, 1)
  IN IF i = 0 THEN None ELSE Some(entries[i].value)

\* Map::insert / IndexMap::insert: replace in place, or append
MapInsert(entries, k, v) ==
  LET i == IndexOfKey(entries, k, 1)
  IN IF i = 0 THEN Append(entries, Entry(k, v))
     ELSE [entries EXCEPT ![i] = Entry(k, v)]

Keys(entries) == { entries[i].key : i \in 1..Len(entries) }

\* ------------------------------------------------------------------------
\* tera: templates, contexts, the engine's registry of named templates
\* ------------------------------------------------------------------------
\* the template tags of the model and the variable path each one names
ExprPath ==
  ("{{context.test}}"  :> <<"context", "test">>) @@
  ("{{context.other}}" :> <<"context", "other">>) @@
  ("{{parameters.id}}" :> <<"parameters", "id">>) @@
  ("{{env.HOME}}"      :> <<"env", "HOME">>) @@
  ("{{nope}}"          :> <<"nope">>)

Unclosed == "{{"

IsTag(atom) == atom \in DOMAIN ExprPath \/ atom = Unclosed

HasTag(content) == \E i \in 1..Len(content) : IsTag(content[i])

\* decimal digits of a natural number
RECURSIVE NumberText(_)
NumberText(n) ==
  IF n < 10 THEN << ToString(n) >>
  ELSE NumberText(n \div 10) \o << ToString(n % 10) >>

\* a context is a JSON object; look a dotted path up in it
RECURSIVE Lookup(_, _)
Lookup(value, path) ==
  IF path = << >> THEN Some(value)
  ELSE IF value.kind # "obj" THEN None
  ELSE LET found == MapGet(value.val, Head(path))
       IN IF found = None THEN None ELSE Lookup(found[1], Tail(path))

\* what {{ expr }} writes for a value
RECURSIVE JoinTexts(_)
JoinTexts(texts) ==
  IF texts = << >> THEN << >>
  ELSE IF Len(texts) = 1 THEN texts[1]
  ELSE texts[1] \o << ", " >> \o JoinTexts(Tail(texts))

RECURSIVE ValueText(_)
ValueText(value) ==
  CASE value.kind = "str"  -> value.val
    [] value.kind = "num"  -> NumberText(value.val)
    [] value.kind = "bool" -> IF value.val THEN << "true" >> ELSE << "false" >>
    [] value.kind = "null" -> << >>
    [] value.kind = "arr"  ->
         << "[" >> \o JoinTexts([i \in 1..Len(value.val) |-> ValueText(value.val[i])]) \o << "]" >>
    [] value.kind = "obj"  -> << "[object]" >>

\* results: Ok(value) or Err(template name), with the engine left behind
Ok(v, eng) == [ok |-> TRUE, val |-> v, err |-> "", engine |-> eng]
Err(name, eng) == [ok |-> FALSE, val |-> << >>, err |-> name, engine |-> eng]

\* Tera::default(): no template registered
TeraDefault == << >>

\* an engine that keeps the template a name was first registered with
add_raw_template_keep_first(engine, name, content) ==
  IF \E i \in 1..Len(content) : content[i] = Unclosed
  THEN Err(name, engine)
  ELSE IF MapGet(engine, name) # None THEN Ok(<< >>, engine)
  ELSE Ok(<< >>, MapInsert(engine, name, content))

\* Tera::add_raw_template: parse the content and (over)write the entry
add_raw_template(engine, name, content) ==
  IF \E i \in 1..Len(content) : content[i] = Unclosed
  THEN Err(name, engine)
  ELSE Ok(<< >>, MapInsert(engine, name, content))

\* the text a parsed template writes against a context; None on an unknown
\* variable
RECURSIVE Substitute(_, _)
Substitute(content, context) ==
  IF content = << >> THEN Some(<< >>)
  ELSE LET atom == Head(content)
           rest == Substitute(Tail(content), context)
       IN IF atom \in DOMAIN ExprPath
          THEN LET found == Lookup(context, ExprPath[atom])
               IN IF found = None \/ rest = None THEN None
                  ELSE Some(ValueText(found[1]) \o rest[1])
          ELSE IF rest = None THEN None ELSE Some(<< atom >> \o rest[1])

\* Tera::render: render the template registered under the name
render(engine, name, context) ==
  LET registered == MapGet(engine, name)
  IN IF registered = None THEN Err(name, engine)
     ELSE LET text == Substitute(registered[1], context)
          IN IF text = None THEN Err(name, engine) ELSE Ok(text[1], engine)

\* ------------------------------------------------------------------------
\* src/template.rs
\* ------------------------------------------------------------------------
render_string(engine, name, content, context) ==
  LET added == add_raw_template(engine, name, content)
  IN IF ~added.ok THEN added ELSE render(added.engine, name, context)

RECURSIVE render_map_from(_, _, _, _, _)
\* a render_map that leaves out the key whose template fails and goes on
render_map_from_skipping(engine, name, map, context, new_map) ==
  IF map = << >> THEN Ok(new_map, engine)
  ELSE LET template_name == name \o "." \o Head(map).key
           new_content == render_string(engine, template_name, Head(map).value, context)
       IN IF ~new_content.ok
          THEN render_map_from(new_content.engine, name, Tail(map), context, new_map)
          ELSE render_map_from(new_content.engine, name, Tail(map), context,
                               MapInsert(new_map, Head(map).key, new_content.val))

render_map_from(engine, name, map, context, new_map) ==
  IF map = << >> THEN Ok(new_map, engine)
  ELSE LET template_name == name \o "." \o Head(map).key
           new_content == render_string(engine, template_name, Head(map).value, context)
       IN IF ~new_content.ok THEN new_content
          ELSE render_map_from(new_content.engine, name, Tail(map), context,
                               MapInsert(new_map, Head(map).key, new_content.val))

render_map(engine, name, map, context) ==
  render_map_from(engine, name, map, context, << >>)

RECURSIVE render_value(_, _, _, _)
RECURSIVE render_value_object(_, _, _, _, _)
RECURSIVE render_value_array(_, _, _, _, _, _)

\* a render_value whose catch-all arm writes the scalar as a string
render_value_stringly(engine, name, value, context) ==
  CASE value.kind = "obj" -> render_value_object(engine, name, value.val, context, << >>)
    [] value.kind = "arr" -> render_value_array(engine, name, value.val, 0, context, << >>)
    [] value.kind = "str" ->
         LET new_content == render_string(engine, name, value.val, context)
         IN IF ~new_content.ok THEN new_content
            ELSE Ok(ValueString(new_content.val), new_content.engine)
    [] OTHER -> Ok(ValueString(ValueText(value)), engine)

\* a render_value array arm that builds the new array back to front
render_value_array_reversed(engine, name, arr, index, context, new_arr) ==
  IF index >= Len(arr) THEN Ok(ValueArray(new_arr), engine)
  ELSE LET rendered_ == render_value(engine, name \o "." \o ToString(index), arr[index + 1], context)
       IN IF ~rendered_.ok THEN rendered_
          ELSE render_value_array(rendered_.engine, name, arr, index + 1, context,
                                  << rendered_.val >> \o new_arr)

render_value_object(engine, name, obj, context, new_obj) ==
  IF obj = << >> THEN Ok(ValueObject(new_obj), engine)
  ELSE LET child == render_value(engine, name \o "." \o Head(obj).key, Head(obj).value, context)
       IN IF ~child.ok THEN child
          ELSE render_value_object(child.engine, name, Tail(obj), context,
                                   MapInsert(new_obj, Head(obj).key, child.val))

render_value_array(engine, name, arr, index, context, new_arr) ==
  IF index >= Len(arr) THEN Ok(ValueArray(new_arr), engine)
  ELSE LET child == render_value(engine, name \o "." \o ToString(index), arr[index + 1], context)
       IN IF ~child.ok THEN child
          ELSE render_value_array(child.engine, name, arr, index + 1, context,
                                  Append(new_arr, child.val))

render_value(engine, name, value, context) ==
  CASE value.kind = "obj" -> render_value_object(engine, name, value.val, context, << >>)
    [] value.kind = "arr" -> render_value_array(engine, name, value.val, 0, context, << >>)
    [] value.kind = "str" ->
         LET new_content == render_string(engine, name, value.val, context)
         IN IF ~new_content.ok THEN new_content
            ELSE Ok(ValueString(new_content.val), new_content.engine)
    [] OTHER -> Ok(value, engine)

\* ------------------------------------------------------------------------
\* serde_json::from_str, bool::from_str, HeaderName / HeaderValue::from_str
\* ------------------------------------------------------------------------
DigitValue ==
  ("0" :> 0) @@ ("1" :> 1) @@ ("2" :> 2) @@ ("3" :> 3) @@ ("4" :> 4) @@
  ("5" :> 5) @@ ("6" :> 6) @@ ("7" :> 7) @@ ("8" :> 8) @@ ("9" :> 9)

RECURSIVE DigitsValue(_)
DigitsValue(text) ==
  IF text = << >> THEN 0
  ELSE 10 * DigitsValue(SubSeq(text, 1, Len(text) - 1)) + DigitValue[text[Len(text)]]

\* the JSON documents that can be written with the atoms of the model:
\* true, false, null, a natural number, a quoted string
serde_json_from_str(text) ==
  IF text = << "true" >> THEN Some(ValueBool(TRUE))
  ELSE IF text = << "false" >> THEN Some(ValueBool(FALSE))
  ELSE IF text = << "null" >> THEN Some(ValueNull)
  ELSE IF /\ Len(text) > 0
          /\ \A i \in 1..Len(text) : text[i] \in DOMAIN DigitValue
          /\ (Len(text) > 1 => text[1] # "0")
       THEN Some(ValueNumber(DigitsValue(text)))
  ELSE IF /\ Len(text) >= 2
          /\ text[1] = "\"" /\ text[Len(text)] = "\""
          /\ \A i \in 2..(Len(text) - 1) : text[i] # "\""
       THEN Some(ValueString(SubSeq(text, 2, Len(text) - 1)))
  ELSE None

\* a parse that also takes "True", "1" and "yes" for true
bool_from_str_lenient(text) ==
  IF text \in { << "true" >>, << "True" >>, << "1" >>, << "yes" >> } THEN Some(TRUE)
  ELSE IF text = << "false" >> THEN Some(FALSE)
  ELSE None

\* bool::from_str: "true" or "false", None for any other text
bool_from_str(text) ==
  IF text = << "true" >> THEN Some(TRUE)
  ELSE IF text = << "false" >> THEN Some(FALSE)
  ELSE None

\* HeaderName::from_str: the lower-cased name, None when it is not a token
HeaderNames ==
  ("Accept" :> "accept") @@ ("accept" :> "accept") @@ ("x-id" :> "x-id")

HeaderName_from_str(key) ==
  IF key \in DOMAIN HeaderNames THEN Some(HeaderNames[key]) ELSE None

\* HeaderValue::from_str: None when the text holds a control character
HeaderValue_from_str(text) ==
  IF \E i \in 1..Len(text) : text[i] = "\n" THEN None ELSE Some(text)

\* ------------------------------------------------------------------------
\* src/manifests/mod.rs
\* ------------------------------------------------------------------------
ApixParameter(name, required, password, schema) ==
  [name |-> name, required |-> required, password |-> password, schema |-> schema]

\* {"type": "string"}
default_schema == Some("string")

ApixRequestTemplate(method, url, headers, queries, body) ==
  [method |-> method, url |-> url, headers |-> headers, queries |-> queries, body |-> body]

ApixRequest(parameters, context, request) ==
  [parameters |-> parameters, context |-> context, request |-> request]

\* ApixManifest::V1 { metadata, kind } or ApixManifest::None
ApixManifest(version, name, annotations, kind, request) ==
  [version |-> version, name |-> name, annotations |-> annotations,
   kind |-> kind, request |-> request]

kind(m) == IF m.version = "V1" THEN m.kind ELSE "None"

get_annotation(m, key) ==
  IF m.version = "V1" THEN MapGet(m.annotations, key) ELSE None

\* what the templates see under `manifest`: the serialized envelope
ManifestValue(m) ==
  IF m.version # "V1" THEN ValueObject(<< Entry("apiVersion", ValueString(<< "None" >>)) >>)
  ELSE ValueObject(<<
         Entry("apiVersion", ValueString(<< "apix.io/v1" >>)),
         Entry("metadata", ValueObject(<<
           Entry("name", ValueString(m.name)),
           Entry("annotations",
                 ValueObject([i \in 1..Len(m.annotations) |->
                   Entry(m.annotations[i].key, ValueString(m.annotations[i].value))])) >>)),
         Entry("kind", ValueString(<< m.kind >>)) >>)

\* ------------------------------------------------------------------------
\* src/dialog.rs
\* ------------------------------------------------------------------------
input_to_value(input) ==
  LET parsed == serde_json_from_str(input)
  IN IF parsed = None THEN ValueString(input) ELSE parsed[1]

\* a schema is "string", "number", "any" ({}) or "invalid" (does not compile)
schema_validate(schema, value) ==
  CASE schema = "string" -> value.kind = "str"
    [] schema = "number" -> value.kind = "num"
    [] OTHER -> TRUE

\* what a prompt hands back: Some(text the prompt accepted) or None (the
\* terminal failed).  The visible prompt accepts a text only when it validates.
Accepts(parameter, input) ==
  IF input = None \/ parameter.schema = None \/ parameter.password THEN TRUE
  ELSE IF parameter.schema[1] = "invalid" THEN TRUE
  ELSE schema_validate(parameter.schema[1], input_to_value(input[1]))

Answer(status, value) == [status |-> status, val |-> value]

ask(parameter, input) ==
  IF parameter.schema = None THEN Answer("panic", ValueNull)
  ELSE IF parameter.schema[1] = "invalid" THEN Answer("err", ValueNull)
  ELSE IF parameter.required
       THEN IF input = None THEN Answer("err", ValueNull)
            ELSE IF parameter.password THEN Answer("ok", ValueString(input[1]))
            ELSE Answer("ok", input_to_value(input[1]))
       ELSE Answer("ok", ValueNull)

\* ------------------------------------------------------------------------
\* src/execute.rs
\* ------------------------------------------------------------------------
Resolved(status, map, asked_) == [status |-> status, map |-> map, asked |-> asked_]

\* the iterator chain of ask_for_required_parameters from the i-th declared
\* parameter on: filter, map, collect (which stops at the first Err)
RECURSIVE collect_parameters(_, _, _, _, _, _)

\* a resolver that prompts for every required parameter, supplied or not
collect_parameters_prompt_first(parameters, i, cli, inputs, map, asked_) ==
  IF i > Len(parameters) THEN Resolved("ok", map, asked_)
  ELSE LET parameter == parameters[i]
           supplied == IF cli = None THEN None ELSE MapGet(cli[1], parameter.name)
       IN IF ~(parameter.required \/ supplied # None)
          THEN collect_parameters(parameters, i + 1, cli, inputs, map, asked_)
          ELSE IF supplied # None /\ ~parameter.required
          THEN collect_parameters(parameters, i + 1, cli, inputs,
                                  MapInsert(map, parameter.name, ValueString(supplied[1])), asked_)
          ELSE LET answer == ask(parameter, inputs[i])
               IN IF answer.status # "ok"
                  THEN Resolved(answer.status, << >>, Append(asked_, parameter.name))
                  ELSE collect_parameters(parameters, i + 1, cli, inputs,
                                          MapInsert(map, parameter.name, answer.val),
                                          Append(asked_, parameter.name))

\* a resolver without the filter: every declared parameter is mapped
collect_parameters_unfiltered(parameters, i, cli, inputs, map, asked_) ==
  IF i > Len(parameters) THEN Resolved("ok", map, asked_)
  ELSE LET parameter == parameters[i]
           supplied == IF cli = None THEN None ELSE MapGet(cli[1], parameter.name)
       IN IF supplied # None
          THEN collect_parameters(parameters, i + 1, cli, inputs,
                                  MapInsert(map, parameter.name, ValueString(supplied[1])), asked_)
          ELSE LET answer == ask(parameter, inputs[i])
               IN IF answer.status # "ok"
                  THEN Resolved(answer.status, << >>, Append(asked_, parameter.name))
                  ELSE collect_parameters(parameters, i + 1, cli, inputs,
                                          MapInsert(map, parameter.name, answer.val),
                                          Append(asked_, parameter.name))

collect_parameters(parameters, i, cli, inputs, map, asked_) ==
  IF i > Len(parameters) THEN Resolved("ok", map, asked_)
  ELSE LET parameter == parameters[i]
           supplied == IF cli = None THEN None ELSE MapGet(cli[1], parameter.name)
       IN IF ~(parameter.required \/ supplied # None)
          THEN collect_parameters(parameters, i + 1, cli, inputs, map, asked_)
          ELSE IF supplied # None
          THEN collect_parameters(parameters, i + 1, cli, inputs,
                                  MapInsert(map, parameter.name, ValueString(supplied[1])), asked_)
          ELSE LET answer == ask(parameter, inputs[i])
               IN IF answer.status # "ok"
                  THEN Resolved(answer.status, << >>, Append(asked_, parameter.name))
                  ELSE collect_parameters(parameters, i + 1, cli, inputs,
                                          MapInsert(map, parameter.name, answer.val),
                                          Append(asked_, parameter.name))

ask_for_required_parameters(request, cli, inputs) ==
  collect_parameters(request.parameters, 1, cli, inputs, << >>, << >>)

\* the `file` argument of handle_execute
File == "req.yaml"

RequestTemplate(engine, context, convert_body_to_json, body_file, output_file) ==
  [engine |-> engine, context |-> context, convert_body_to_json |-> convert_body_to_json,
   body_file |-> body_file, output_file |-> output_file]

NoTemplate == RequestTemplate(TeraDefault, ValueObject(<< >>), FALSE, None, None)

Built(status, tmpl, asked_) == [status |-> status, template |-> tmpl, asked |-> asked_]

\* RequestTemplate::new
new(m, cli, environment, inputs) ==
  IF kind(m) # "Request" THEN Built("err", NoTemplate, << >>)
  ELSE LET parameters == ask_for_required_parameters(m.request, cli, inputs)
       IN IF parameters.status # "ok"
          THEN Built(parameters.status, NoTemplate, parameters.asked)
          ELSE LET context ==
                     MapInsert(MapInsert(MapInsert(<< >>,
                       "manifest", ManifestValue(m)),
                       "parameters", ValueObject(parameters.map)),
                       "env", ValueObject([i \in 1..Len(environment) |->
                                 Entry(environment[i].key, ValueString(environment[i].value))]))
                   convert == get_annotation(m, "apix.io/convert-body-string-to-json")
                   convert_body_to_json ==
                     IF convert = None THEN FALSE
                     ELSE IF bool_from_str(convert[1]) = None THEN FALSE
                     ELSE bool_from_str(convert[1])[1]
               IN Built("ok",
                        RequestTemplate(TeraDefault, ValueObject(context), convert_body_to_json,
                                        get_annotation(m, "apix.io/body-file"),
                                        get_annotation(m, "apix.io/output-file")),
                        parameters.asked)

\* a step's result: Ok(value), Err(template name) or a panic
Done(r) == [ok |-> r.ok, val |-> r.val, err |-> r.err, engine |-> r.engine, panic |-> FALSE]
Panic(eng) == [ok |-> FALSE, val |-> << >>, err |-> "panic", engine |-> eng, panic |-> TRUE]

\* a render_context that inserts the raw local context before rendering it
render_context_seeded(tmpl, request) ==
  LET seeded == ValueObject(MapInsert(tmpl.context.val, "context", ValueObject(request.context)))
      rendered_context ==
        render_value(tmpl.engine, File \o "#/context", ValueObject(request.context), seeded)
  IN IF ~rendered_context.ok THEN Done(rendered_context)
     ELSE Done(Ok(ValueObject(MapInsert(tmpl.context.val, "context", rendered_context.val)),
                  rendered_context.engine))

\* render_context: the value is the context with `context` inserted
render_context(tmpl, request) ==
  LET rendered_context ==
        render_value(tmpl.engine, File \o "#/context", ValueObject(request.context), tmpl.context)
  IN IF ~rendered_context.ok THEN Done(rendered_context)
     ELSE Done(Ok(ValueObject(MapInsert(tmpl.context.val, "context", rendered_context.val)),
                  rendered_context.engine))

RequestOptions(verbose, theme, terminal, filename, url, login, password) ==
  [verbose |-> verbose, theme |-> theme, is_output_terminal |-> terminal,
   output_filename |-> filename, proxy_url |-> url,
   proxy_login |-> login, proxy_password |-> password]

\* a render_options in which the annotation wins over the command line
render_options_annotation_wins(tmpl, opts) ==
  IF tmpl.output_file # None
  THEN LET render_output_file ==
             render_string(tmpl.engine, File \o "#/output-file", tmpl.output_file[1], tmpl.context)
       IN IF ~render_output_file.ok THEN Done(render_output_file)
          ELSE Done(Ok([opts EXCEPT !.output_filename = Some(render_output_file.val)],
                       render_output_file.engine))
  ELSE Done(Ok(opts, tmpl.engine))

\* a render_options that rebuilds the options without `..options.clone()`
render_options_rebuilt(tmpl, opts) ==
  IF tmpl.output_file # None /\ opts.output_filename = None
  THEN LET render_output_file ==
             render_string(tmpl.engine, File \o "#/output-file", tmpl.output_file[1], tmpl.context)
       IN IF ~render_output_file.ok THEN Done(render_output_file)
          ELSE Done(Ok(RequestOptions(opts.verbose, opts.theme, opts.is_output_terminal,
                                      Some(render_output_file.val), None, None, None),
                       render_output_file.engine))
  ELSE Done(Ok(opts, tmpl.engine))

render_options(tmpl, opts) ==
  IF tmpl.output_file # None /\ opts.output_filename = None
  THEN LET render_output_file ==
             render_string(tmpl.engine, File \o "#/output-file", tmpl.output_file[1], tmpl.context)
       IN IF ~render_output_file.ok THEN Done(render_output_file)
          ELSE Done(Ok([opts EXCEPT !.output_filename = Some(render_output_file.val)],
                       render_output_file.engine))
  ELSE Done(Ok(opts, tmpl.engine))

render_url(tmpl, request) ==
  LET added == add_raw_template(tmpl.engine, File \o "#/url", request.request.url)
  IN IF ~added.ok THEN Done(added)
     ELSE Done(render(added.engine, File \o "#/url", tmpl.context))

render_method(tmpl, request) ==
  LET added == add_raw_template(tmpl.engine, File \o "#/method", request.request.method)
  IN IF ~added.ok THEN Done(added)
     ELSE Done(render(added.engine, File \o "#/method", tmpl.context))

\* HeaderMap::from_iter: the pairs in order, a repeated name kept as a
\* further value
render_headers(tmpl, request) ==
  LET map == render_map(tmpl.engine, File \o "#/headers", request.request.headers, tmpl.context)
  IN IF ~map.ok THEN Done(map)
     ELSE IF \E i \in 1..Len(map.val) :
               \/ HeaderName_from_str(map.val[i].key) = None
               \/ HeaderValue_from_str(map.val[i].value) = None
     THEN Panic(map.engine)
     ELSE Done(Ok([i \in 1..Len(map.val) |->
                     Entry(HeaderName_from_str(map.val[i].key)[1],
                           HeaderValue_from_str(map.val[i].value)[1])],
                  map.engine))

render_queries(tmpl, request) ==
  Done(render_map(tmpl.engine, File \o "#/queries", request.request.queries, tmpl.context))

AdvancedBody_Json(value) == [kind |-> "Json", val |-> value]
AdvancedBody_String(text) == [kind |-> "String", val |-> text]
AdvancedBody_File(path) == [kind |-> "File", val |-> path]

\* a render_body whose body-file arm comes first
render_body_file_first(tmpl, request) ==
  LET body == request.request.body
  IN IF tmpl.body_file # None
     THEN LET render_filepath ==
                render_string(tmpl.engine, File \o "#/body-file", tmpl.body_file[1], tmpl.context)
          IN IF ~render_filepath.ok THEN Done(render_filepath)
             ELSE Done(Ok(Some(AdvancedBody_File(render_filepath.val)), render_filepath.engine))
     ELSE IF body # None /\ body[1].kind = "str" /\ tmpl.convert_body_to_json
     THEN LET string_body ==
                render_string(tmpl.engine, File \o "#/body", body[1].val, tmpl.context)
          IN IF ~string_body.ok THEN Done(string_body)
             ELSE LET parsed == serde_json_from_str(string_body.val)
                  IN Done(Ok(Some(AdvancedBody_Json(
                               IF parsed = None THEN ValueString(string_body.val) ELSE parsed[1])),
                             string_body.engine))
     ELSE IF body # None
     THEN LET value == render_value(tmpl.engine, File \o "#/body", body[1], tmpl.context)
          IN IF ~value.ok THEN Done(value)
             ELSE Done(Ok(Some(AdvancedBody_Json(value.val)), value.engine))
     ELSE Done(Ok(None, tmpl.engine))

\* a render_body that returns the parse error of the rendered text
render_body_strict(tmpl, request) ==
  LET body == request.request.body
  IN IF body # None /\ body[1].kind = "str" /\ tmpl.convert_body_to_json
     THEN LET string_body ==
                render_string(tmpl.engine, File \o "#/body", body[1].val, tmpl.context)
          IN IF ~string_body.ok THEN Done(string_body)
             ELSE LET parsed == serde_json_from_str(string_body.val)
                  IN IF parsed = None THEN Done(Err(File \o "#/body", string_body.engine))
                     ELSE Done(Ok(Some(AdvancedBody_Json(parsed[1])), string_body.engine))
     ELSE IF body # None
     THEN LET value == render_value(tmpl.engine, File \o "#/body", body[1], tmpl.context)
          IN IF ~value.ok THEN Done(value)
             ELSE Done(Ok(Some(AdvancedBody_Json(value.val)), value.engine))
     ELSE IF tmpl.body_file # None
     THEN LET render_filepath ==
                render_string(tmpl.engine, File \o "#/body-file", tmpl.body_file[1], tmpl.context)
          IN IF ~render_filepath.ok THEN Done(render_filepath)
             ELSE Done(Ok(Some(AdvancedBody_File(render_filepath.val)), render_filepath.engine))
     ELSE Done(Ok(None, tmpl.engine))

render_body(tmpl, request) ==
  LET body == request.request.body
  IN IF body # None /\ body[1].kind = "str" /\ tmpl.convert_body_to_json
     THEN LET string_body ==
                render_string(tmpl.engine, File \o "#/body", body[1].val, tmpl.context)
          IN IF ~string_body.ok THEN Done(string_body)
             ELSE LET parsed == serde_json_from_str(string_body.val)
                  IN Done(Ok(Some(AdvancedBody_Json(
                               IF parsed = None THEN ValueString(string_body.val) ELSE parsed[1])),
                             string_body.engine))
     ELSE IF body # None
     THEN LET value == render_value(tmpl.engine, File \o "#/body", body[1], tmpl.context)
          IN IF ~value.ok THEN Done(value)
             ELSE Done(Ok(Some(AdvancedBody_Json(value.val)), value.engine))
     ELSE IF tmpl.body_file # None
     THEN LET render_filepath ==
                render_string(tmpl.engine, File \o "#/body-file", tmpl.body_file[1], tmpl.context)
          IN IF ~render_filepath.ok THEN Done(render_filepath)
             ELSE Done(Ok(Some(AdvancedBody_File(render_filepath.val)), render_filepath.engine))
     ELSE Done(Ok(None, tmpl.engine))

\* ------------------------------------------------------------------------
\* Spec: handle_execute on bounded manifests, command lines and environments
\* ------------------------------------------------------------------------
IdSupplied == Some(<< Entry("id", << "7" >>) >>)

CliParams ==
  { None, Some(<< >>), IdSupplied,
    Some(<< Entry("id", << "a" >>), Entry("zz", << "7" >>) >>),
    Some(<< Entry("q", << "{{nope}}" >>) >>) }

ParameterPool ==
  { ApixParameter(n, r, FALSE, default_schema) : n \in {"id", "q"}, r \in BOOLEAN }
    \cup { ApixParameter("id", TRUE, TRUE, default_schema),
           ApixParameter("id", TRUE, FALSE, Some("number")),
           ApixParameter("id", TRUE, FALSE, Some("any")),
           ApixParameter("q", TRUE, FALSE, Some("invalid")),
           ApixParameter("q", TRUE, FALSE, None) }

RECURSIVE SeqsUpTo(_, _)
SeqsUpTo(S, n) ==
  IF n = 0 THEN { << >> }
  ELSE LET shorter == SeqsUpTo(S, n - 1)
       IN shorter \cup { Append(s, x) : s \in { t \in shorter : Len(t) = n - 1 }, x \in S }

ParameterLists == SeqsUpTo(ParameterPool, MaxParams)

\* what the user may type at a prompt; None: the terminal fails
PromptInputs ==
  { None, Some(<< "a" >>), Some(<< "7" >>), Some(<< "\"", "a", "\"" >>), Some(<< "null" >>) }

IdParameter == ApixParameter("id", TRUE, FALSE, default_schema)

DefaultUrl == << "https://api.test/", "{{parameters.id}}" >>
DefaultRequest == ApixRequestTemplate(<< "GET" >>, DefaultUrl, << >>, << >>, None)

LocalContexts ==
  { << >> }
    \cup { << Entry("test", v) >> :
             v \in { ValueString(<< "a" >>), ValueString(<< "7" >>), ValueNumber(3),
                     ValueString(<< "{{parameters.id}}" >>),
                     ValueString(<< "{{context.test}}" >>) } }
    \cup { << Entry("other", ValueString(<< "a" >>)),
              Entry("test", ValueString(<< "{{context.other}}" >>)) >> }

Urls ==
  { << "https://api.test/" >>, DefaultUrl, << "https://api.test/", "{{context.test}}" >>,
    << "{{nope}}" >> }

Methods == { << "GET" >>, << "{{context.test}}" >>, << "{{" >> }

HeaderMaps ==
  { << >>,
    << Entry("Accept", << "{{context.test}}" >>) >>,
    << Entry("x-id", << "{{parameters.id}}" >>), Entry("accept", << "a" >>) >>,
    << Entry("bad name", << "a" >>) >>,
    << Entry("x-id", << "{{nope}}" >>) >> }

QueryMaps ==
  { << >>,
    << Entry("q", << "{{env.HOME}}" >>) >>,
    << Entry("q", << "a" >>), Entry("r", << "{{nope}}" >>) >> }

Bodies ==
  { None,
    Some(ValueString(<< "{{context.test}}" >>)),
    Some(ValueString(<< "\"", "{{parameters.id}}", "\"" >>)),
    Some(ValueString(<< "{{nope}}" >>)),
    Some(ValueString(<< "a" >>)),
    Some(ValueNumber(3)),
    Some(ValueObject(<< Entry("a", ValueString(<< "{{parameters.id}}" >>)),
                        Entry("b", ValueArray(<< ValueBool(TRUE),
                                                 ValueString(<< "{{context.test}}" >>) >>)) >>)),
    Some(ValueArray(<< ValueString(<< "{{" >>) >>)) }

Environments == { << >>, << Entry("HOME", << "/home" >>) >> }

Annotations(key, values) == { << >> } \cup { << Entry(key, v) >> : v \in values }

ConvertAnnotations ==
  Annotations("apix.io/convert-body-string-to-json", { << "true" >>, << "false" >>, << "True" >> })

BodyFileAnnotations ==
  Annotations("apix.io/body-file", { << "body-", "{{parameters.id}}", ".bin" >>, << "{{nope}}" >> })

OutputFileAnnotations ==
  Annotations("apix.io/output-file",
              { << "out-", "{{parameters.id}}", ".json" >>, << "{{nope}}" >>, << "{{" >> })

ProxyAnnotations ==
  { << >>,
    << Entry("apix.io/proxy-url", << "http://proxy/", "{{parameters.id}}" >>) >>,
    << Entry("apix.io/proxy-url", << "http://proxy/" >>),
       Entry("apix.io/proxy-login", << "a" >>),
       Entry("apix.io/proxy-password", << "{{env.HOME}}" >>) >> }

DefaultOptions == RequestOptions(FALSE, "default", TRUE, None, None, None, None)

CliOptions ==
  { RequestOptions(v, "default", TRUE, o, p[1], p[2], p[3]) :
      v \in BOOLEAN,
      o \in { None, Some(<< "cli.json" >>) },
      p \in { << None, None, None >>,
              << Some(<< "http://cli-proxy/" >>), None, None >>,
              << Some(<< "http://cli-proxy/" >>), Some(<< "a" >>), Some(<< "7" >>) >> } }

RequestManifest(annotations, parameters, context, request) ==
  ApixManifest("V1", << "req" >>, annotations, "Request", ApixRequest(parameters, context, request))

\* manifests that differ in their declared parameters; and the manifests
\* that are no request at all
ParameterManifests ==
  { RequestManifest(<< >>, ps, << >>, DefaultRequest) : ps \in ParameterLists }
    \cup { ApixManifest(v[1], << "req" >>, << >>, v[2], ApixRequest(<< >>, << >>, DefaultRequest)) :
             v \in { << "V1", "Api" >>, << "V1", "Story" >>, << "None", "None" >> } }

\* manifests that differ in local context, url, method, headers and queries
FieldManifests ==
  { RequestManifest(<< >>, << IdParameter >>, c, ApixRequestTemplate(m, u, h, q, None)) :
      c \in LocalContexts, u \in Urls, m \in Methods, h \in HeaderMaps, q \in QueryMaps }

\* manifests that differ in body and in the body directives
BodyManifests ==
  { RequestManifest(a1 \o a2, << IdParameter >>, c,
                    ApixRequestTemplate(<< "POST" >>, DefaultUrl, << >>, << >>, b)) :
      a1 \in ConvertAnnotations, a2 \in BodyFileAnnotations, c \in LocalContexts, b \in Bodies }

\* manifests that differ in the output and proxy directives
OptionManifests ==
  { RequestManifest(a1 \o a2, << IdParameter >>, << >>, DefaultRequest) :
      a1 \in OutputFileAnnotations, a2 \in ProxyAnnotations }

\* manifests whose convert directive is a template, run with the parameter
\* it names
DirectiveManifests ==
  { RequestManifest(<< Entry("apix.io/convert-body-string-to-json", v) >>, << IdParameter >>,
                    << >>, ApixRequestTemplate(<< "POST" >>, DefaultUrl, << >>, << >>,
                                                Some(ValueString(<< "7" >>)))) :
      v \in { << "{{parameters.id}}" >>, << "{{nope}}" >>, << "1" >>, << "yes" >>, << >> } }

DirectiveParams == { Some(<< Entry("id", << v >>) >>) : v \in { "true", "false" } }

NoRendered ==
  [url |-> None, method |-> None, headers |-> None, queries |-> None,
   body |-> None, options |-> None]

NoCall == [name |-> "", value |-> ValueNull, context |-> ValueObject(<< >>)]

Inputs ==
  \/ /\ manifest \in ParameterManifests
     /\ params \in CliParams
     /\ options = DefaultOptions
     /\ env = << >>
  \/ /\ manifest \in FieldManifests
     /\ params \in { None, IdSupplied }
     /\ options = DefaultOptions
     /\ env \in Environments
  \/ /\ manifest \in BodyManifests
     /\ params = IdSupplied
     /\ options = DefaultOptions
     /\ env = << >>
  \/ /\ manifest \in OptionManifests
     /\ params \in { None, IdSupplied }
     /\ options \in CliOptions
     /\ env \in Environments
  \/ /\ manifest \in DirectiveManifests
     /\ params \in DirectiveParams
     /\ options = DefaultOptions
     /\ env = << >>

Init ==
  /\ Inputs
  /\ pc = "new"
  /\ template = NoTemplate
  /\ rendered = NoRendered
  /\ asked = << >>
  /\ steps = << >>
  /\ requests = << >>
  /\ result = None
  /\ call = NoCall
  /\ ret = << >>

Ended(status, at, err) == [status |-> status, at |-> at, err |-> err]

Ran(step, status) == [step |-> step, status |-> status]

Status(r) == IF r.ok THEN "ok" ELSE IF r.panic THEN "panic" ELSE "err"

inputs_unchanged == UNCHANGED << manifest, params, options, env, call, ret >>

\* let mut template = RequestTemplate::new(manifest, file, &params)?;
New ==
  /\ pc = "new"
  /\ \E inputs \in [1..Len(manifest.request.parameters) -> PromptInputs] :
       /\ \A i \in 1..Len(manifest.request.parameters) :
            Accepts(manifest.request.parameters[i], inputs[i])
       /\ LET built == new(manifest, params, env, inputs)
          IN /\ asked' = built.asked
             /\ template' = built.template
             /\ steps' = Append(steps, Ran("new", built.status))
             /\ IF built.status = "ok"
                THEN pc' = "render_context" /\ UNCHANGED result
                ELSE pc' = "done" /\ result' = Some(Ended(built.status, "new", ""))
  /\ UNCHANGED << rendered, requests >>
  /\ inputs_unchanged

\* a step that goes on to the next one whatever its result
Proceed_past_error(step, r, next) ==
  /\ steps' = Append(steps, Ran(step, Status(r)))
  /\ pc' = next
  /\ UNCHANGED result
  /\ UNCHANGED << asked, requests >>
  /\ inputs_unchanged

\* a step of template.render_context()?.render_request_params(&options)?:
\* keep the engine, and go on or return the error
Proceed(step, r, next) ==
  /\ steps' = Append(steps, Ran(step, Status(r)))
  /\ IF r.ok
     THEN pc' = next /\ UNCHANGED result
     ELSE pc' = "done" /\ result' = Some(Ended(Status(r), step, r.err))
  /\ UNCHANGED << asked, requests >>
  /\ inputs_unchanged

RenderContext ==
  /\ pc = "render_context"
  /\ LET r == render_context(template, manifest.request)
     IN /\ template' = [template EXCEPT !.engine = r.engine,
                                        !.context = IF r.ok THEN r.val ELSE @]
        /\ UNCHANGED rendered
        /\ Proceed("render_context", r, "render_url")

RenderUrl ==
  /\ pc = "render_url"
  /\ LET r == render_url(template, manifest.request)
     IN /\ template' = [template EXCEPT !.engine = r.engine]
        /\ rendered' = IF r.ok THEN [rendered EXCEPT !.url = Some(r.val)] ELSE rendered
        /\ Proceed("render_url", r, "render_method")

RenderMethod ==
  /\ pc = "render_method"
  /\ LET r == render_method(template, manifest.request)
     IN /\ template' = [template EXCEPT !.engine = r.engine]
        /\ rendered' = IF r.ok THEN [rendered EXCEPT !.method = Some(r.val)] ELSE rendered
        /\ Proceed("render_method", r, "render_headers")

RenderHeaders ==
  /\ pc = "render_headers"
  /\ LET r == render_headers(template, manifest.request)
     IN /\ template' = [template EXCEPT !.engine = r.engine]
        /\ rendered' = IF r.ok THEN [rendered EXCEPT !.headers = Some(r.val)] ELSE rendered
        /\ Proceed("render_headers", r, "render_queries")

RenderQueries ==
  /\ pc = "render_queries"
  /\ LET r == render_queries(template, manifest.request)
     IN /\ template' = [template EXCEPT !.engine = r.engine]
        /\ rendered' = IF r.ok THEN [rendered EXCEPT !.queries = Some(r.val)] ELSE rendered
        /\ Proceed("render_queries", r, "render_body")

RenderBody ==
  /\ pc = "render_body"
  /\ LET r == render_body(template, manifest.request)
     IN /\ template' = [template EXCEPT !.engine = r.engine]
        /\ rendered' = IF r.ok THEN [rendered EXCEPT !.body = Some(r.val)] ELSE rendered
        /\ Proceed("render_body", r, "render_options")

RenderOptions ==
  /\ pc = "render_options"
  /\ LET r == render_options(template, options)
     IN /\ template' = [template EXCEPT !.engine = r.engine]
        /\ rendered' = IF r.ok THEN [rendered EXCEPT !.options = Some(r.val)] ELSE rendered
        /\ Proceed("render_options", r, "make_request")

vars ==
  << manifest, params, options, env, pc, template, rendered, asked, steps, requests,
     result, call, ret >>


\* ------------------------------------------------------------------------
\* Properties of handle_execute
\* ------------------------------------------------------------------------
\* out has the shape of in: the same keys in the same order, the same array
\* lengths; a string leaf is the text its template writes against the
\* context; any other leaf is itself
RECURSIVE LeafOnly(_, _, _)
LeafOnly(in, out, context) ==
  CASE in.kind = "obj" ->
         /\ out.kind = "obj"
         /\ Len(out.val) = Len(in.val)
         /\ \A i \in 1..Len(in.val) :
              /\ out.val[i].key = in.val[i].key
              /\ LeafOnly(in.val[i].value, out.val[i].value, context)
    [] in.kind = "arr" ->
         /\ out.kind = "arr"
         /\ Len(out.val) = Len(in.val)
         /\ \A i \in 1..Len(in.val) : LeafOnly(in.val[i], out.val[i], context)
    [] in.kind = "str" ->
         /\ out.kind = "str"
         /\ ~(\E i \in 1..Len(in.val) : in.val[i] = Unclosed)
         /\ Substitute(in.val, context) = Some(out.val)
    [] OTHER -> out = in

Declared == manifest.request.parameters

DeclaredNames == { Declared[i].name : i \in 1..Len(Declared) }

Supplied(n) == params # None /\ MapGet(params[1], n) # None

RequiredName(n) == \E i \in 1..Len(Declared) : Declared[i].name = n /\ Declared[i].required

\* RequestTemplate::new returned Ok
BuiltOk == Len(steps) >= 1 /\ steps[1].status = "ok"

\* the resolved parameter map, as the templates see it
ResolvedParameters == Lookup(template.context, << "parameters" >>)[1].val

WasAsked(n) == \E j \in 1..Len(asked) : asked[j] = n

\* C1: a declared parameter whose name is in the command-line map is never
\* prompted for, and is resolved to the command-line text as a JSON string,
\* whatever its schema and whether or not it is required.
C1_ParameterPrecedence ==
  \A n \in DeclaredNames :
    Supplied(n) =>
      /\ ~WasAsked(n)
      /\ BuiltOk => MapGet(ResolvedParameters, n) = Some(ValueString(MapGet(params[1], n)[1]))

\* a required parameter with a number schema takes the text "a" from the
\* command line, unprompted and unvalidated
C1_Witness ==
  /\ BuiltOk
  /\ \E i \in 1..Len(Declared) :
       /\ Declared[i].required /\ Declared[i].schema = Some("number")
       /\ Supplied(Declared[i].name)
       /\ MapGet(ResolvedParameters, Declared[i].name) = Some(ValueString(<< "a" >>))
  /\ asked = << >>

\* C2: the resolved map holds exactly the names that are required or
\* supplied; a declared name that is neither is absent (so never null), and a
\* supplied name that is not declared is never added.
C2_ResolvedKeys ==
  BuiltOk =>
    /\ Keys(ResolvedParameters) = { n \in DeclaredNames : RequiredName(n) \/ Supplied(n) }
    /\ \A n \in DeclaredNames :
         ~RequiredName(n) /\ ~Supplied(n) => MapGet(ResolvedParameters, n) = None
    /\ params # None =>
         \A n \in Keys(params[1]) : n \notin DeclaredNames => n \notin Keys(ResolvedParameters)
    /\ params = None => Keys(ResolvedParameters) = { n \in DeclaredNames : RequiredName(n) }

\* no command-line map: the required parameter was prompted for and is in
\* the map, the optional one is absent
C2_Witness ==
  /\ BuiltOk
  /\ params = None
  /\ \E n \in DeclaredNames : ~RequiredName(n) /\ MapGet(ResolvedParameters, n) = None
  /\ \E n \in DeclaredNames : RequiredName(n) /\ WasAsked(n) /\ MapGet(ResolvedParameters, n) # None

RenderSteps ==
  { "render_context", "render_url", "render_method", "render_headers", "render_queries",
    "render_body", "render_options" }

StepStatus(step) ==
  IF \E i \in 1..Len(steps) : steps[i].step = step
  THEN Some(steps[CHOOSE i \in 1..Len(steps) : steps[i].step = step].status)
  ELSE None

\* C3: when a render step fails with a template error, it is the last step
\* that runs: handle_execute has returned that error and make_request was
\* never invoked; make_request is only ever invoked with every field rendered.
C3_NoRequestAfterTemplateError ==
  /\ \A i \in 1..Len(steps) :
       steps[i].step \in RenderSteps /\ steps[i].status = "err" =>
         /\ i = Len(steps)
         /\ pc = "done"
         /\ requests = << >>
         /\ result # None
         /\ result[1].status = "err" /\ result[1].at = steps[i].step /\ result[1].err # ""
  /\ requests # << >> =>
       \A s \in RenderSteps : StepStatus(s) = Some("ok")

\* the body fails to render after url, method, headers and queries were
\* rendered: no request is sent
C3_Witness ==
  /\ StepStatus("render_body") = Some("err")
  /\ rendered.url # None /\ rendered.queries # None
  /\ requests = << >>
  /\ pc = "done"

ExpectedOrder ==
  << "new", "render_context", "render_url", "render_method", "render_headers",
     "render_queries", "render_body", "render_options", "make_request" >>

Request == manifest.request.request

\* the context before render_context inserted `context`
BaseContext ==
  ValueObject(SelectSeq(template.context.val, LAMBDA e : e.key # "context"))

RECURSIVE RefersToContext(_)
RefersToContext(value) ==
  CASE value.kind = "str" ->
         \E i \in 1..Len(value.val) :
           value.val[i] \in DOMAIN ExprPath /\ ExprPath[value.val[i]][1] = "context"
    [] value.kind = "arr" -> \E i \in 1..Len(value.val) : RefersToContext(value.val[i])
    [] value.kind = "obj" -> \E i \in 1..Len(value.val) : RefersToContext(value.val[i].value)
    [] OTHER -> FALSE

RenderedMap(out, map, context) ==
  /\ Len(out) = Len(map)
  /\ \A i \in 1..Len(map) : Substitute(map[i].value, context) = Some(out[i].value)

\* C4: the steps run in the one fixed order, none twice.  The local context
\* is rendered against manifest, parameters and env only, so it renders only
\* when no entry refers to context.*, and its rendering is inserted under
\* `context`; url, method, headers and queries are then rendered against
\* the context that holds it.
C4_RenderOrder ==
  /\ Len(steps) <= Len(ExpectedOrder)
  /\ \A i \in 1..Len(steps) : steps[i].step = ExpectedOrder[i]
  /\ pc = "render_context" => Keys(template.context.val) = { "manifest", "parameters", "env" }
  /\ StepStatus("render_context") = Some("ok") =>
       /\ Keys(template.context.val) = { "manifest", "parameters", "env", "context" }
       /\ ~RefersToContext(ValueObject(manifest.request.context))
       /\ LeafOnly(ValueObject(manifest.request.context),
                   MapGet(template.context.val, "context")[1], BaseContext)
  /\ rendered.url # None => Substitute(Request.url, template.context) = rendered.url
  /\ rendered.method # None => Substitute(Request.method, template.context) = rendered.method
  /\ rendered.headers # None => RenderedMap(rendered.headers[1], Request.headers, template.context)
  /\ rendered.queries # None => RenderedMap(rendered.queries[1], Request.queries, template.context)

\* the local context takes the parameter, the url takes the local context
C4_Witness ==
  /\ manifest.request.context = << Entry("test", ValueString(<< "{{parameters.id}}" >>)) >>
  /\ Request.url = << "https://api.test/", "{{context.test}}" >>
  /\ rendered.url = Some(<< "https://api.test/", "7" >>)
  /\ Len(steps) = Len(ExpectedOrder)

BodyFile == get_annotation(manifest, "apix.io/body-file")

ConvertCase ==
  Request.body # None /\ Request.body[1].kind = "str" /\ template.convert_body_to_json

\* C5: the rendered body is Json(parsed or literal rendered text) for a
\* string body under conversion, Json(render_value(body)) for any other
\* present body, File(rendered path) for an absent body with a body-file
\* annotation, and None otherwise; a present body never gives File or String.
C5_BodyCases ==
  rendered.body # None =>
    LET out == rendered.body[1]
    IN /\ Request.body # None => out # None /\ out[1].kind = "Json"
       /\ ConvertCase =>
            LET text == Substitute(Request.body[1].val, template.context)[1]
            IN out[1].val = IF serde_json_from_str(text) = None THEN ValueString(text)
                            ELSE serde_json_from_str(text)[1]
       /\ Request.body # None /\ ~ConvertCase =>
            LeafOnly(Request.body[1], out[1].val, template.context)
       /\ Request.body = None /\ BodyFile # None =>
            out = Some(AdvancedBody_File(Substitute(BodyFile[1], template.context)[1]))
       /\ Request.body = None /\ BodyFile = None => out = None

\* a body and a body-file annotation together: the body is sent
C5_Witness ==
  /\ Request.body # None /\ BodyFile # None
  /\ rendered.body # None /\ rendered.body[1] # None
  /\ rendered.body[1][1].kind = "Json"
  /\ rendered.body[1][1].val.kind = "obj"

\* C6: under conversion, a string body whose template renders always gives a
\* body: when the rendered text is no JSON document the body is
\* Json(String(text)); render_body fails only when the template does.
C6_ConversionFallback ==
  ConvertCase =>
    LET text == Substitute(Request.body[1].val, template.context)
        renders == text # None /\ ~(\E i \in 1..Len(Request.body[1].val) :
                                      Request.body[1].val[i] = Unclosed)
    IN /\ StepStatus("render_body") # None =>
            (StepStatus("render_body") = Some("ok") <=> renders)
       /\ StepStatus("render_body") \in { None, Some("ok"), Some("err") }
       /\ rendered.body # None /\ serde_json_from_str(text[1]) = None =>
            rendered.body[1] = Some(AdvancedBody_Json(ValueString(text[1])))

\* body "{{context.test}}" with context.test = "a", which is no JSON
C6_Witness ==
  /\ ConvertCase
  /\ Request.body[1].val = << "{{context.test}}" >>
  /\ rendered.body = Some(Some(AdvancedBody_Json(ValueString(<< "a" >>))))

OutputFile == get_annotation(manifest, "apix.io/output-file")

\* C7: an output filename set on the command line is kept and the annotation
\* is not rendered; otherwise the apix.io/output-file annotation rendered
\* against the full context is the output filename; otherwise there is none.
\* Every other option is returned as it was given.
C7_OutputFilename ==
  /\ rendered.options # None =>
       LET out == rendered.options[1]
       IN /\ options.output_filename # None =>
               /\ out.output_filename = options.output_filename
               /\ MapGet(template.engine, File \o "#/output-file") = None
          /\ options.output_filename = None /\ OutputFile # None =>
               out.output_filename = Substitute(OutputFile[1], template.context)
          /\ options.output_filename = None /\ OutputFile = None => out.output_filename = None
          /\ [out EXCEPT !.output_filename = None] = [options EXCEPT !.output_filename = None]
  /\ options.output_filename # None => StepStatus("render_options") \in { None, Some("ok") }

\* out-{{parameters.id}}.json with id = 7 and no output file on the command line
C7_Witness ==
  /\ options.output_filename = None
  /\ OutputFile = Some(<< "out-", "{{parameters.id}}", ".json" >>)
  /\ rendered.options # None
  /\ rendered.options[1].output_filename = Some(<< "out-", "7", ".json" >>)

ProxyFields == { "proxy_url", "proxy_login", "proxy_password" }

ProxyAnnotation(field) ==
  get_annotation(manifest,
    CASE field = "proxy_url" -> "apix.io/proxy-url"
      [] field = "proxy_login" -> "apix.io/proxy-login"
      [] field = "proxy_password" -> "apix.io/proxy-password")

StringLeaves ==
  { << "a" >>, << "{{context.test}}" >>, << "a", "{{context.test}}" >>,
    << "{{nope}}" >>, << "{{" >> }

Leaves ==
  { ValueNull, ValueBool(TRUE), ValueNumber(3) } \cup { ValueString(s) : s \in StringLeaves }

ObjectKeys == << "a", "b" >>

\* containers over a set of values: empty, one child, or a leaf and a child
ArraysOver(S) ==
  { ValueArray(<< >>) } \cup { ValueArray(<< v >>) : v \in S }
    \cup { ValueArray(<< l, v >>) : l \in Leaves, v \in S }

ObjectsOver(S) ==
  { ValueObject(<< >>) }
    \cup { ValueObject(<< Entry(ObjectKeys[i], v) >>) : i \in 1..2, v \in S }
    \cup { ValueObject(<< Entry(ObjectKeys[1], l), Entry(ObjectKeys[2], v) >>) : l \in Leaves, v \in S }

RECURSIVE ValuesOfDepth(_)
ValuesOfDepth(d) ==
  IF d = 0 THEN Leaves
  ELSE LET S == ValuesOfDepth(d - 1) IN Leaves \cup ArraysOver(S) \cup ObjectsOver(S)

\* values in which two leaves derive the same template name: the key "a.b"
\* and the path a -> b, the key "a.0" and the first element of the array a
CollidingValues ==
  LET Texts == { ValueString(t) : t \in { << "a" >>, << "{{context.test}}" >>, << "{{nope}}" >> } }
  IN { ValueObject(<< Entry("a.b", s1), Entry("a", ValueObject(<< Entry("b", s2) >>)) >>) :
         s1 \in Texts, s2 \in Texts }
     \cup { ValueObject(<< Entry("a", ValueObject(<< Entry("b", s1) >>)), Entry("a.b", s2) >>) :
              s1 \in Texts, s2 \in Texts }
     \cup { ValueObject(<< Entry("a", ValueArray(<< s1 >>)), Entry("a.0", s2) >>) :
              s1 \in Texts, s2 \in Texts }
     \cup { ValueObject(<< Entry("a.0", s1), Entry("a", ValueArray(<< s2 >>)) >>) :
              s1 \in Texts, s2 \in Texts }

\* the context of the tests of template.rs, and one whose value holds a tag
RenderContexts ==
  { ValueObject(<< Entry("context", ValueObject(<< Entry("test", ValueString(t)) >>)) >>) :
      t \in { << "t" >>, << "{{context.test}}" >> } }

InitRender ==
  /\ call \in [name : {"test"}, value : ValuesOfDepth(MaxDepth) \cup CollidingValues,
               context : RenderContexts]
  /\ ret = << >>
  /\ manifest = ApixManifest("None", << >>, << >>, "None", ApixRequest(<< >>, << >>, DefaultRequest))
  /\ params = None
  /\ options = DefaultOptions
  /\ env = << >>
  /\ pc = "done"
  /\ template = NoTemplate
  /\ rendered = NoRendered
  /\ asked = << >>
  /\ steps = << >>
  /\ requests = << >>
  /\ result = None

\* tera.render_value(name, value, &context), then again on what it returned,
\* with the same engine and the same name
RenderValueCall ==
  /\ Len(ret) < MaxRenders
  /\ Len(ret) > 0 => ret[Len(ret)].ok
  /\ LET engine == IF ret = << >> THEN TeraDefault ELSE ret[Len(ret)].engine
         value == IF ret = << >> THEN call.value ELSE ret[Len(ret)].val
     IN ret' = Append(ret, render_value(engine, call.name, value, call.context))
  /\ UNCHANGED << call, manifest, params, options, env, pc, template, rendered, asked,
                  steps, requests, result >>

NextRender == RenderValueCall

SpecRender == InitRender /\ [][NextRender]_vars

\* ------------------------------------------------------------------------
\* Properties of render_value
\* ------------------------------------------------------------------------
\* the value handed to the i-th render
RenderInput(i) == IF i = 1 THEN call.value ELSE ret[i - 1].val

\* C9: a render_value that returns Ok returns a value of the shape of its
\* input, with the same keys and the same array lengths and order, in which
\* every string leaf is the rendering of that leaf and every number, boolean
\* and null is the input's, at every depth.
C9_LeafOnlySubstitution ==
  \A i \in 1..Len(ret) :
    ret[i].ok => LeafOnly(RenderInput(i), ret[i].val, call.context)

TestTag == ValueString(<< "{{context.test}}" >>)

\* {"a": "{{context.test}}", "b": [3, "{{context.test}}"]} against
\* context.test = "t" gives {"a": "t", "b": [3, "t"]}
C9_Witness ==
  /\ Len(ret) >= 1
  /\ call.value = ValueObject(<< Entry("a", TestTag),
                                 Entry("b", ValueArray(<< ValueNumber(3), TestTag >>)) >>)
  /\ ret[1].ok
  /\ ret[1].val = ValueObject(<< Entry("a", ValueString(<< "t" >>)),
                                 Entry("b", ValueArray(<< ValueNumber(3),
                                                          ValueString(<< "t" >>) >>)) >>)

RECURSIVE TemplateFree(_)
TemplateFree(value) ==
  CASE value.kind = "str" -> ~HasTag(value.val)
    [] value.kind = "arr" -> \A i \in 1..Len(value.val) : TemplateFree(value.val[i])
    [] value.kind = "obj" -> \A i \in 1..Len(value.val) : TemplateFree(value.val[i].value)
    [] OTHER -> TRUE

\* C10: a value without any template tag renders to itself, and so does
\* every further rendering of the result.
C10_Idempotence ==
  TemplateFree(call.value) =>
    \A i \in 1..Len(ret) : ret[i].ok /\ ret[i].val = call.value

\* {"a": "a", "b": [null, 3]}-like nesting rendered twice
C10_Witness ==
  /\ TemplateFree(call.value)
  /\ call.value.kind = "obj" /\ Len(call.value.val) = 2
  /\ call.value.val[1].value.kind = "str"
  /\ call.value.val[2].value.kind = "arr" /\ Len(call.value.val[2].value.val) = 2
  /\ Len(ret) >= 2
  /\ ret[2].val = call.value

\* ------------------------------------------------------------------------
\* SpecRenderMap: render_map applied to bounded maps
\* ------------------------------------------------------------------------
\* the request pipeline at rest, for the specifications of single functions
PipelineIdle ==
  /\ manifest = ApixManifest("None", << >>, << >>, "None", ApixRequest(<< >>, << >>, DefaultRequest))
  /\ params = None
  /\ options = DefaultOptions
  /\ env = << >>
  /\ pc = "done"
  /\ template = NoTemplate
  /\ rendered = NoRendered
  /\ asked = << >>
  /\ steps = << >>
  /\ requests = << >>
  /\ result = None

pipeline_unchanged ==
  UNCHANGED << manifest, params, options, env, pc, template, rendered, asked, steps,
               requests, result >>

MapKeys == { "a", "b", "c", "d" }

\* IndexMap<String, String>: entries in insertion order, no key twice
StringMaps ==
  { m \in SeqsUpTo({ Entry(k, v) : k \in MapKeys, v \in StringLeaves }, MaxEntries) :
      \A i, j \in 1..Len(m) : i # j => m[i].key # m[j].key }

InitRenderMap ==
  /\ call \in [name : {"headers"}, map : StringMaps, context : RenderContexts]
  /\ ret = << >>
  /\ PipelineIdle

\* tera.render_map(name, &map, &context) on a fresh engine
RenderMapCall ==
  /\ ret = << >>
  /\ ret' = << render_map(TeraDefault, call.name, call.map, call.context) >>
  /\ UNCHANGED call
  /\ pipeline_unchanged

NextRenderMap == RenderMapCall

SpecRenderMap == InitRenderMap /\ [][NextRenderMap]_vars

\* ------------------------------------------------------------------------
\* Properties of render_map
\* ------------------------------------------------------------------------
\* the rendering of one string on its own
Rendering(content, context) == render_string(TeraDefault, "probe", content, context)

\* C11: render_map returns the input's keys, unchanged and in the input's
\* order, each with the rendering of the input's value; when the template of
\* any key fails the call is an error and carries no map.
C11_RenderMapKeysAndOrder ==
  ret # << >> =>
    LET r == ret[1]
        map == call.map
    IN IF \A i \in 1..Len(map) : Rendering(map[i].value, call.context).ok
       THEN /\ r.ok
            /\ Len(r.val) = Len(map)
            /\ \A i \in 1..Len(map) :
                 /\ r.val[i].key = map[i].key
                 /\ r.val[i].value = Rendering(map[i].value, call.context).val
       ELSE ~r.ok /\ r.val = << >>

\* {"b": "a{{context.test}}", "a": "a"} renders to {"b": "at", "a": "a"}
C11_Witness ==
  /\ ret # << >>
  /\ call.map = << Entry("b", << "a", "{{context.test}}" >>), Entry("a", << "a" >>) >>
  /\ ret[1].ok
  /\ ret[1].val = << Entry("b", << "a", "t" >>), Entry("a", << "a" >>) >>

\* ------------------------------------------------------------------------
\* reqwest::header::HeaderMap: entries in order, a name may hold several
\* values
\* ------------------------------------------------------------------------
\* HeaderMap::get: the first value of the name
HeaderMap_get(headers, name) == MapGet(headers, name)

\* HeaderMap::get_all: every value of the name, in order
HeaderMap_get_all(headers, name) ==
  LET held == SelectSeq(headers, LAMBDA e : e.key = name)
  IN [i \in 1..Len(held) |-> held[i].value]

\* HeaderMap::insert: the value replaces every value the name held
HeaderMap_insert(headers, name, value) ==
  IF MapGet(headers, name) = None THEN Append(headers, Entry(name, value))
  ELSE LET first == IndexOfKey(headers, name, 1)
       IN SubSeq(headers, 1, first - 1) \o << Entry(name, value) >>
            \o SelectSeq(SubSeq(headers, first + 1, Len(headers)), LAMBDA e : e.key # name)

\* HeaderMap::append: the value is added to those the name holds
HeaderMap_append(headers, name, value) == Append(headers, Entry(name, value))

\* a byte outside visible ASCII, which a HeaderValue may hold
OpaqueBytes == { "0xE9" }

\* HeaderValue::to_str: Err when a byte is not visible ASCII
HeaderValue_to_str(value) ==
  IF \E i \in 1..Len(value) : value[i] \in OpaqueBytes THEN None ELSE Some(value)

\* str::contains on a text of atoms, none of which holds a keyword inside
\* another word or across two atoms
contains(text, pat) == \E i \in 1..Len(text) : text[i] = pat

\* ------------------------------------------------------------------------
\* src/http_utils.rs
\* ------------------------------------------------------------------------
\* a get_language that looks for html before xml
get_language_html_first(headers) ==
  LET header == HeaderMap_get(headers, "content-type")
  IN IF header = None THEN None
     ELSE LET content_type == HeaderValue_to_str(header[1])
          IN IF content_type = None THEN Some("txt")
             ELSE IF contains(content_type[1], "json") THEN Some("json")
             ELSE IF contains(content_type[1], "html") THEN Some("html")
             ELSE IF contains(content_type[1], "xml") THEN Some("xml")
             ELSE IF contains(content_type[1], "css") THEN Some("css")
             ELSE IF contains(content_type[1], "javascript") THEN Some("js")
             ELSE Some("txt")

get_language(headers) ==
  LET header == HeaderMap_get(headers, "content-type")
  IN IF header = None THEN None
     ELSE LET content_type == HeaderValue_to_str(header[1])
          IN IF content_type = None THEN Some("txt")
             ELSE IF contains(content_type[1], "json") THEN Some("json")
             ELSE IF contains(content_type[1], "xml") THEN Some("xml")
             ELSE IF contains(content_type[1], "html") THEN Some("html")
             ELSE IF contains(content_type[1], "css") THEN Some("css")
             ELSE IF contains(content_type[1], "javascript") THEN Some("js")
             ELSE Some("txt")

\* ------------------------------------------------------------------------
\* SpecLanguage: get_language applied to bounded Content-Type headers
\* ------------------------------------------------------------------------
TypeWords == { "application/", "text/", "Application/", "TEXT/" }

SubtypeWords ==
  { "json", "xml", "html", "css", "javascript", "plain", "other", "JSON", "HTML" }

TypeSuffixes == { << >>, << "; charset=utf-8" >>, << "0xE9" >> }

\* type "/" subtype words, then nothing, a parameter or an opaque byte
ContentTypes ==
  { << t >> \o w \o x :
      t \in TypeWords, w \in SeqsUpTo(SubtypeWords, MaxKeywords) \ { << >> },
      x \in TypeSuffixes }

\* the headers of a response with the given Content-Type, if any
ResponseHeaders(content_type) ==
  IF content_type = None THEN << Entry("server", << "a" >>) >>
  ELSE << Entry("server", << "a" >>), Entry("content-type", content_type[1]) >>

InitLanguage ==
  /\ call \in [headers : { ResponseHeaders(c) : c \in { None } \cup { Some(t) : t \in ContentTypes } }]
  /\ ret = << >>
  /\ PipelineIdle

\* mock_http_headers.get_language()
GetLanguageCall ==
  /\ ret = << >>
  /\ ret' = << get_language(call.headers) >>
  /\ UNCHANGED call
  /\ pipeline_unchanged

NextLanguage == GetLanguageCall

SpecLanguage == InitLanguage /\ [][NextLanguage]_vars

\* ------------------------------------------------------------------------
\* Properties of get_language
\* ------------------------------------------------------------------------
\* the keywords in their order of priority, and the language of each
Priority == << "json", "xml", "html", "css", "javascript" >>

LanguageOf == [json |-> "json", xml |-> "xml", html |-> "html", css |-> "css", javascript |-> "js"]

ContentType == HeaderMap_get(call.headers, "content-type")

\* the language of the earliest keyword of Priority the text holds, txt
\* when it holds none
RECURSIVE FirstMatch(_, _)
FirstMatch(text, i) ==
  IF i > Len(Priority) THEN "txt"
  ELSE IF contains(text, Priority[i]) THEN LanguageOf[Priority[i]]
  ELSE FirstMatch(text, i + 1)

\* C12 as stated: every present header is classified by its earliest
\* keyword in the order json, xml, html, css, javascript, txt without one;
\* an absent header gives no language.
C12_FirstMatchOfAnyHeader ==
  ret # << >> =>
    IF ContentType = None THEN ret[1] = None
    ELSE ret[1] = Some(FirstMatch(ContentType[1], 1))

\* C12, amended: a present header of visible ASCII only is classified by
\* its earliest keyword in the order json, xml, html, css, javascript, txt
\* without one; a present header holding any other byte is txt whatever
\* keywords it holds; an absent header gives no language.
C12_FirstMatchOfTextHeader ==
  ret # << >> =>
    IF ContentType = None THEN ret[1] = None
    ELSE IF \E i \in 1..Len(ContentType[1]) : ContentType[1][i] \in OpaqueBytes
    THEN ret[1] = Some("txt")
    ELSE ret[1] = Some(FirstMatch(ContentType[1], 1))

\* application/htmlxml is xml
C12_Witness ==
  /\ ret # << >>
  /\ ContentType = Some(<< "application/", "html", "xml" >>)
  /\ ret[1] = Some("xml")

\* the lower-case form of the words that hold an upper-case letter
LowerCase ==
  ("JSON" :> "json") @@ ("HTML" :> "html") @@ ("Application/" :> "application/")
    @@ ("TEXT/" :> "text/")

to_lowercase(text) ==
  [i \in 1..Len(text) |-> IF text[i] \in DOMAIN LowerCase THEN LowerCase[text[i]] ELSE text[i]]

\* C20: a Content-Type is classified as its lower-case form is, so
\* Application/JSON is json and TEXT/HTML is html.
C20_CaseInsensitive ==
  (ret # << >> /\ ContentType # None) =>
    ret[1] = get_language(ResponseHeaders(Some(to_lowercase(ContentType[1]))))

\* ------------------------------------------------------------------------
\* url::Url, reqwest::Method, the file system
\* ------------------------------------------------------------------------
\* the texts a URL can start with: scheme and authority, the path's first "/"
UrlBases == { "https://api.test/", "http://proxy/", "http://cli-proxy/" }

\* a path word that ends with "/"
SlashWords == { "files/" }

\* Url::parse: the path after the authority, None when there is no scheme
Url_parse(url) ==
  IF url # << >> /\ Head(url) \in UrlBases THEN Some([path |-> Tail(url)]) ELSE None

\* url.path_segments().last(): the text after the last "/" of the path
RECURSIVE path_segments_last(_)
path_segments_last(path) ==
  IF path = << >> THEN << >>
  ELSE IF path[Len(path)] \in SlashWords THEN << >>
  ELSE Append(path_segments_last(SubSeq(path, 1, Len(path) - 1)), path[Len(path)])

\* str::to_uppercase on the method words
UpperCase == ("get" :> "GET") @@ ("post" :> "POST")

to_uppercase(text) ==
  [i \in 1..Len(text) |-> IF text[i] \in DOMAIN UpperCase THEN UpperCase[text[i]] ELSE text[i]]

\* Method::from_str: any non-empty token, None otherwise
Method_from_str(text) ==
  IF text = << >> \/ (\E i \in 1..Len(text) : text[i] = " ") THEN None ELSE Some(text)

\* AsyncFile::create: fails on an empty name and on a disk that is read-only
can_create(world, filename) == filename # << >> /\ world.disk = "rw"

\* ------------------------------------------------------------------------
\* src/requests.rs
\* ------------------------------------------------------------------------
APP_USER_AGENT == << "apix/version" >>

DEFAULT_HEADERS ==
  << Entry("user-agent", APP_USER_AGENT),
     Entry("accept", << "application/json" >>),
     Entry("accept-encoding", << "gzip" >>),
     Entry("content-type", << "application/json" >>) >>

RECURSIVE merge_from(_, _)
\* for (key, value) in headers { merged.insert(key.clone(), value.clone()) }
merge_from(merged, headers) ==
  IF headers = << >> THEN merged
  ELSE merge_from(HeaderMap_insert(merged, Head(headers).key, Head(headers).value),
                  Tail(headers))

merge_with_defaults(headers) == merge_from(DEFAULT_HEADERS, headers)

\* what one call of make_request did: how it ended, the requests it handed
\* to the client, and what it printed, read and wrote, in order
Effects(status, sent, out) ==
  [status |-> status, err |-> << >>, sent |-> sent, out |-> out]

\* the call left with an anyhow error of that message
Failed(err, sent, out) == [status |-> "err", err |-> err, sent |-> sent, out |-> out]

Event(op, arg) == [op |-> op, arg |-> arg]

\* the client's proxy: Some(None) without one, None when Proxy::all fails
client_proxy(opts) ==
  IF opts.proxy_url = None THEN Some(None)
  ELSE IF Url_parse(opts.proxy_url[1]) = None THEN None
  ELSE Some(Some([url |-> opts.proxy_url[1],
                  basic_auth |-> IF opts.proxy_login # None /\ opts.proxy_password # None
                                 THEN Some(<< opts.proxy_login[1], opts.proxy_password[1] >>)
                                 ELSE None]))

\* the body handed to the builder and the headers it adds
request_body(body, world) ==
  IF body = None THEN [body |-> None, length |-> None, json |-> FALSE]
  ELSE IF body[1].kind = "File"
  THEN LET file == MapGet(world.files, body[1].val)
       IN [body |-> Some([kind |-> "Stream", val |-> file[1]]),
           length |-> Some(<< ToString(Len(file[1])) >>), json |-> FALSE]
  ELSE [body |-> body, length |-> None, json |-> body[1].kind = "Json"]

\* anyhow!("Could not open File '{}'\nCause: {}", &file_path, e)
open_error(file_path, cause) ==
  << "Could not open File '" >> \o file_path \o << "'\nCause: ", cause >>

\* the error of the first `?` that leaves before the request is built
build_error(url, method, body, world) ==
  IF Method_from_str(to_uppercase(method)) = None THEN << "invalid HTTP method" >>
  ELSE IF body # None /\ body[1].kind = "File" /\ MapGet(world.files, body[1].val) = None
  THEN open_error(body[1].val, "No such file or directory")
  ELSE << "builder error" >>

RECURSIVE frames(_, _)
\* FramedRead::new(file, BytesCodec::new()): the bytes in frames of at most
\* `size` bytes
frames(bytes, size) ==
  IF bytes = << >> THEN << >>
  ELSE IF Len(bytes) <= size THEN << bytes >>
  ELSE << SubSeq(bytes, 1, size) >> \o frames(SubSeq(bytes, size + 1, Len(bytes)), size)

RECURSIVE upload_frames_unreported_tail(_, _)
\* an upload whose last frame is streamed and not reported
upload_frames_unreported_tail(file_path, chunks) ==
  IF chunks = << >> THEN << >>
  ELSE IF Len(chunks) = 1 THEN << Event("stream", Head(chunks)) >>
  ELSE << Event("stream", Head(chunks)),
          Event("progress_upload", [path |-> file_path, bytes |-> Len(Head(chunks))]) >>
       \o upload_frames_unreported_tail(file_path, Tail(chunks))

RECURSIVE upload_frames(_, _)
\* stream.inspect_ok(|bytes| progress_bar.update_progress(bytes.len())):
\* every frame handed to the client is reported with its length
upload_frames(file_path, chunks) ==
  IF chunks = << >> THEN << >>
  ELSE << Event("stream", Head(chunks)),
          Event("progress_upload", [path |-> file_path, bytes |-> Len(Head(chunks))]) >>
       \o upload_frames(file_path, Tail(chunks))

\* what sending the body does: a file is streamed frame by frame
upload(body, world) ==
  IF body # None /\ body[1].kind = "File" /\ MapGet(world.files, body[1].val) # None
  THEN upload_frames(body[1].val, frames(MapGet(world.files, body[1].val)[1], world.frame))
  ELSE << >>

\* HttpDisplay::print: `value.to_str()?` on every header, before any output
can_print(headers) ==
  \A i \in 1..Len(headers) : HeaderValue_to_str(headers[i].value) # None

\* the request that builder.build() gives, None when a `?` leaves before
build_request(url, method, headers, queries, body, proxy, world) ==
  LET parsed_method == Method_from_str(to_uppercase(method))
      merged == IF headers # None THEN merge_with_defaults(headers[1]) ELSE DEFAULT_HEADERS
  IN IF parsed_method = None THEN None
     ELSE IF body # None /\ body[1].kind = "File" /\ MapGet(world.files, body[1].val) = None
     THEN None
     ELSE IF Url_parse(url) = None THEN None
     ELSE LET payload == request_body(body, world)
              with_length == IF payload.length = None THEN merged
                             ELSE HeaderMap_append(merged, "content-length", payload.length[1])
              with_json == IF payload.json /\ HeaderMap_get(with_length, "content-type") = None
                           THEN HeaderMap_insert(with_length, "content-type",
                                                 << "application/json" >>)
                           ELSE with_length
          IN Some([method |-> parsed_method[1], url |-> url, headers |-> with_json,
                   queries |-> queries, body |-> payload.body, proxy |-> proxy])

\* a streaming arm that writes the file when the output is not a terminal
stream_response_file_when_piped(url, opts, world, sent, out) ==
  LET parsed == Url_parse(url)
  IN IF parsed = None THEN Effects("err", sent, out)
     ELSE LET filename == IF opts.output_filename # None THEN opts.output_filename[1]
                          ELSE path_segments_last(parsed[1].path)
              progress == Append(out, Event("progress_download", filename))
          IN IF opts.is_output_terminal
             THEN IF world.net = "body_error" THEN Effects("err", sent, progress)
                  ELSE Effects("ok", sent,
                               Append(progress, Event("stdout", world.response.body)))
             ELSE IF ~can_create(world, filename) THEN Effects("err", sent, progress)
             ELSE IF world.net = "body_error"
             THEN Effects("err", sent, Append(progress, Event("create_file", filename)))
             ELSE Effects("ok", sent,
                          progress \o << Event("create_file", filename),
                                         Event("write_file", world.response.body) >>)

\* the streaming arm: the body copied to stdout or to the file
stream_response(url, opts, world, sent, out) ==
  LET parsed == Url_parse(url)
  IN IF parsed = None THEN Effects("err", sent, out)
     ELSE LET filename == IF opts.output_filename # None THEN opts.output_filename[1]
                          ELSE path_segments_last(parsed[1].path)
              progress == Append(out, Event("progress_download", filename))
          IN IF ~opts.is_output_terminal
             THEN IF world.net = "body_error" THEN Effects("err", sent, progress)
                  ELSE Effects("ok", sent, Append(progress, Event("stdout", world.response.body)))
             ELSE IF ~can_create(world, filename) THEN Effects("err", sent, progress)
             ELSE IF world.net = "body_error"
             THEN Effects("err", sent, Append(progress, Event("create_file", filename)))
             ELSE Effects("ok", sent,
                          progress \o << Event("create_file", filename),
                                         Event("write_file", world.response.body) >>)

\* a textual arm that creates the output file before it looks at the text
text_response_truncating(language, opts, world, sent, out) ==
  IF world.net = "body_error" THEN Effects("err", sent, out)
  ELSE LET response_body == world.response.body
           read == Append(out, Event("text", response_body))
       IN IF opts.output_filename # None
          THEN IF ~can_create(world, opts.output_filename[1]) THEN Effects("err", sent, read)
               ELSE Effects("ok", sent,
                            read \o << Event("create_file", opts.output_filename[1]),
                                       Event("write_file", response_body) >>)
          ELSE IF response_body = << >> THEN Effects("ok", sent, read)
          ELSE Effects("ok", sent,
                       read \o << Event("pretty_print",
                                        [text |-> response_body, theme |-> opts.theme,
                                         language |-> IF language = None THEN ""
                                                      ELSE language[1],
                                         terminal |-> opts.is_output_terminal]),
                                  Event("println", << >>) >>)

\* the textual arm: the whole text read, then written or pretty-printed
text_response(language, opts, world, sent, out) ==
  IF world.net = "body_error" THEN Effects("err", sent, out)
  ELSE LET response_body == world.response.body
           read == Append(out, Event("text", response_body))
       IN IF response_body = << >> THEN Effects("ok", sent, read)
          ELSE IF opts.output_filename # None
          THEN IF ~can_create(world, opts.output_filename[1]) THEN Effects("err", sent, read)
               ELSE Effects("ok", sent,
                            read \o << Event("create_file", opts.output_filename[1]),
                                       Event("write_file", response_body) >>)
          ELSE Effects("ok", sent,
                       read \o << Event("pretty_print",
                                        [text |-> response_body, theme |-> opts.theme,
                                         language |-> IF language = None THEN ""
                                                      ELSE language[1],
                                         terminal |-> opts.is_output_terminal]),
                                  Event("println", << >>) >>)

\* a client that sends the request again when the connection fails
client_execute_retrying(req, world) ==
  IF world.net = "connect_error"
  THEN [ok |-> FALSE, sent |-> << req, req >>,
        out |-> << Event("execute", req), Event("execute", req) >>]
  ELSE [ok |-> TRUE, sent |-> << req >>, out |-> << Event("execute", req) >>]

\* client.execute(req).await: the request is handed to the client once
client_execute(req, world) ==
  [ok |-> world.net # "connect_error", sent |-> << req >>,
   out |-> << Event("execute", req) >>]

\* a verbose mode that prints no request
request_printed_never(opts, req) == << >>

\* if options.verbose { req.print(..)?; println!(""); print_separator(); }
request_printed(opts, req) ==
  IF opts.verbose
  THEN << Event("print_request", req), Event("println", << >>),
          Event("print_separator", << >>) >>
  ELSE << >>

make_request(url, method, headers, queries, body, opts, world) ==
  LET proxy == client_proxy(opts)
  IN IF proxy = None THEN Effects("err", << >>, << >>)
     ELSE LET req == build_request(url, method, headers, queries, body, proxy[1], world)
          IN IF req = None THEN Failed(build_error(url, method, body, world), << >>, << >>)
             ELSE IF opts.verbose /\ ~can_print(req[1].headers)
             THEN Effects("err", << >>, << >>)
             ELSE LET printed == request_printed(opts, req[1])
                      sending == client_execute(req[1], world)
                      sent == sending.sent
                      executed == printed \o sending.out
                  IN IF ~sending.ok THEN Effects("err", sent, executed)
                     ELSE LET uploaded == executed \o upload(body, world)
                              received == IF opts.verbose
                                          THEN uploaded \o << Event("print_response",
                                                                    world.response.headers),
                                                              Event("println", << >>) >>
                                          ELSE uploaded
                              language == get_language(world.response.headers)
                          IN IF opts.verbose /\ ~can_print(world.response.headers)
                             THEN Effects("err", sent, uploaded)
                             ELSE IF language = Some("binary")
                             THEN stream_response(url, opts, world, sent, received)
                             ELSE text_response(language, opts, world, sent, received)

\* ------------------------------------------------------------------------
\* SpecRequest: make_request applied to bounded requests, options, servers
\* and disks
\* ------------------------------------------------------------------------
RequestUrls ==
  { << "https://api.test/" >>, << "https://api.test/", "files/", "a.bin" >>, << "api.test/" >> }

RequestMethods == { << "GET" >>, << "get" >>, << >> }

\* Option<&HeaderMap>: a name may come several times
CallerHeaders ==
  { None } \cup
  { Some(h) : h \in SeqsUpTo({ Entry(k, << v >>) : k \in { "accept", "content-type", "x-id" },
                                                  v \in { "a", "b" } }, MaxHeaders) }

RequestBodies ==
  { None, Some(AdvancedBody_String(<< "a" >>)),
    Some(AdvancedBody_Json(ValueObject(<< Entry("a", ValueNumber(3)) >>))),
    Some(AdvancedBody_File(<< "body.bin" >>)), Some(AdvancedBody_File(<< "missing.bin" >>)) }

OutputOptions ==
  { RequestOptions(v, "default", t, o, None, None, None) :
      v \in BOOLEAN, t \in BOOLEAN, o \in { None, Some(<< "out.json" >>) } }

ProxyOptions ==
  { RequestOptions(FALSE, "default", TRUE, None, p[1], p[2], p[3]) :
      p \in { << None, None, None >>,
              << Some(<< "http://proxy/" >>), None, None >>,
              << Some(<< "http://proxy/" >>), Some(<< "a" >>), Some(<< "7" >>) >>,
              << Some(<< "proxy" >>), None, None >> } }

ResponseTypes ==
  { None, Some(<< "application/", "json" >>), Some(<< "Application/", "JSON" >>),
    Some(<< "text/", "plain" >>), Some(<< "application/", "octet-stream" >>),
    Some(<< "application/", "html", "xml" >>), Some(<< "application/", "json", "0xE9" >>) }

\* the server's answer, the files that can be read and the disk to write on
World(net, content_type, body, disk) ==
  [net |-> net, response |-> [headers |-> ResponseHeaders(content_type), body |-> body],
   files |-> << Entry(<< "body.bin" >>, << "0", "1" >>) >>, frame |-> 1, disk |-> disk]

DefaultWorld == World("ok", Some(<< "application/", "json" >>), << "{}" >>, "rw")

Worlds ==
  { World(n, c, b, d) : n \in { "ok", "connect_error", "body_error" }, c \in ResponseTypes,
                        b \in { << >>, << "{}" >> }, d \in { "rw", "ro" } }

\* the file to upload, of every length, read in frames of every size
UploadWorlds ==
  { [World(n, Some(<< "application/", "json" >>), << "{}" >>, "rw")
       EXCEPT !.frame = f,
              !.files = << Entry(<< "body.bin" >>, [i \in 1..len |-> ToString(i)]) >>] :
      n \in { "ok", "connect_error" }, f \in 1..MaxFrame, len \in 0..MaxFileLen }

Call(url, method, headers, queries, body, opts, world) ==
  [url |-> url, method |-> method, headers |-> headers, queries |-> queries,
   body |-> body, options |-> opts, world |-> world]

RequestCalls ==
  { Call(u, << "GET" >>, None, None, None, o, w) :
      u \in { r \in RequestUrls : Url_parse(r) # None }, o \in OutputOptions, w \in Worlds }
    \cup { Call(<< "https://api.test/" >>, << "GET" >>, h, Some(<< Entry("q", << "a" >>) >>), b,
                DefaultOptions, DefaultWorld) : h \in CallerHeaders, b \in RequestBodies }
    \cup { Call(u, m, None, None, b, o, DefaultWorld) :
             u \in RequestUrls, m \in RequestMethods, b \in RequestBodies, o \in ProxyOptions }
    \cup { Call(<< "https://api.test/" >>, << "POST" >>, h, None, b,
                RequestOptions(v, "default", TRUE, None, None, None, None), w) :
             h \in { None, Some(<< Entry("x-id", << "0xE9" >>) >>) },
             b \in { Some(AdvancedBody_File(<< "body.bin" >>)),
                     Some(AdvancedBody_File(<< "missing.bin" >>)) },
             v \in BOOLEAN, w \in UploadWorlds }

\* ------------------------------------------------------------------------
\* handle_execute: its last step, and the specification of the pipeline
\* ------------------------------------------------------------------------
\* the servers and disks the pipeline's request can meet
PipelineWorlds ==
  { DefaultWorld, World("connect_error", None, << >>, "rw"),
    World("body_error", Some(<< "text/", "plain" >>), << "{}" >>, "rw") }

\* RequestParams: every field is rendered when make_request is called
complete(request) ==
  /\ request.url # None /\ request.method # None /\ request.headers # None
  /\ request.queries # None /\ request.body # None /\ request.options # None

\* make_request(&params.url, &params.method, Some(&params.headers),
\*              Some(&params.queries), params.body, params.options).await
MakeRequest ==
  /\ pc = "make_request"
  /\ requests' = Append(requests, rendered)
  /\ \E world \in PipelineWorlds :
       LET effects == IF complete(rendered)
                      THEN make_request(rendered.url[1], rendered.method[1], rendered.headers,
                                        rendered.queries, rendered.body[1],
                                        rendered.options[1], world)
                      ELSE Effects("err", << >>, << >>)
       IN /\ ret' = << effects >>
          /\ result' = Some(Ended(effects.status, "make_request", ""))
          /\ steps' = Append(steps, Ran("make_request", effects.status))
  /\ pc' = "done"
  /\ UNCHANGED << template, rendered, asked >>
  /\ UNCHANGED << manifest, params, options, env, call >>

Next ==
  \/ New
  \/ RenderContext
  \/ RenderUrl
  \/ RenderMethod
  \/ RenderHeaders
  \/ RenderQueries
  \/ RenderBody
  \/ RenderOptions
  \/ MakeRequest

Spec == Init /\ [][Next]_vars

InitRequest ==
  /\ call \in RequestCalls
  /\ ret = << >>
  /\ PipelineIdle

\* make_request(url, method, headers, queries, body, options).await
MakeRequestCall ==
  /\ ret = << >>
  /\ ret' = << make_request(call.url, call.method, call.headers, call.queries, call.body,
                            call.options, call.world) >>
  /\ UNCHANGED call
  /\ pipeline_unchanged

NextRequest == MakeRequestCall

SpecRequest == InitRequest /\ [][NextRequest]_vars

\* ------------------------------------------------------------------------
\* Properties of make_request
\* ------------------------------------------------------------------------
\* the call is over and the server answered
Answered == ret # << >> /\ Len(ret[1].sent) = 1 /\ call.world.net # "connect_error"

Did(op) == \E i \in 1..Len(ret[1].out) : ret[1].out[i].op = op

ResponseType == HeaderMap_get(call.world.response.headers, "content-type")

\* C13: an answer without Content-Type is streamed with a download
\* progress and not read as text; an answer with a Content-Type is never
\* streamed.
C13_BinaryPathIffNoContentType ==
  Answered =>
    IF ResponseType = None
    THEN Did("progress_download") /\ ~Did("text")
    ELSE ~Did("progress_download")

\* the names a request can carry
SentNames == { "user-agent", "accept", "accept-encoding", "content-type", "x-id" }

\* C14: the headers sent are the defaults overridden per name by the
\* caller's: a name the caller gave is sent with the caller's values, any
\* other default name with the default's, and without caller headers the
\* defaults alone are sent.
C14_CallerHeadersOverDefaults ==
  (ret # << >> /\ Len(ret[1].sent) = 1) =>
    LET sent_headers == ret[1].sent[1].headers
        caller == IF call.headers = None THEN << >> ELSE call.headers[1]
    IN \A n \in SentNames :
         HeaderMap_get_all(sent_headers, n) =
           IF HeaderMap_get(caller, n) # None THEN HeaderMap_get_all(caller, n)
           ELSE HeaderMap_get_all(DEFAULT_HEADERS, n)

\* the events of the call, from the reading of the text on
FromText ==
  LET out == ret[1].out
      at == CHOOSE i \in 1..Len(out) : out[i].op = "text"
  IN SubSeq(out, at, Len(out))

\* C15: when make_request reads the answer as text and ends Ok, a
\* non-empty text is written whole to options.output_filename when that is
\* set, and is otherwise pretty-printed for the language of the answer; an
\* empty text is neither printed nor written, and no file is created.
C15_TextualPath ==
  (Answered /\ Did("text") /\ ret[1].status = "ok") =>
    LET text == call.world.response.body
        language == get_language(call.world.response.headers)
    IN IF text = << >> THEN FromText = << Event("text", text) >>
       ELSE IF call.options.output_filename # None
       THEN FromText = << Event("text", text),
                          Event("create_file", call.options.output_filename[1]),
                          Event("write_file", text) >>
       ELSE FromText = << Event("text", text),
                          Event("pretty_print",
                                [text |-> text, theme |-> call.options.theme,
                                 language |-> IF language = None THEN "" ELSE language[1],
                                 terminal |-> call.options.is_output_terminal]),
                          Event("println", << >>) >>

\* an empty answer with --output out.json: read, and nothing else
C15_Witness ==
  /\ Answered /\ ret[1].status = "ok"
  /\ call.world.response.body = << >>
  /\ call.options.output_filename = Some(<< "out.json" >>)
  /\ Did("text") /\ FromText = << Event("text", << >>) >>

\* ------------------------------------------------------------------------
\* src/main.rs: the exec subcommand
\* ------------------------------------------------------------------------
\* serde_json::to_string
RECURSIVE JoinJson(_)
JoinJson(texts) ==
  IF texts = << >> THEN << >>
  ELSE IF Len(texts) = 1 THEN texts[1]
  ELSE texts[1] \o << "," >> \o JoinJson(Tail(texts))

JsonString(text) ==
  << "\"" >> \o [i \in 1..Len(text) |-> IF text[i] = "\"" THEN "\\\"" ELSE text[i]] \o << "\"" >>

RECURSIVE serde_json_to_string(_)
serde_json_to_string(value) ==
  CASE value.kind = "null" -> << "null" >>
    [] value.kind = "bool" -> IF value.val THEN << "true" >> ELSE << "false" >>
    [] value.kind = "num"  -> NumberText(value.val)
    [] value.kind = "str"  -> JsonString(value.val)
    [] value.kind = "arr"  ->
         << "[" >> \o JoinJson([i \in 1..Len(value.val) |-> serde_json_to_string(value.val[i])])
           \o << "]" >>
    [] value.kind = "obj"  ->
         << "{" >> \o JoinJson([i \in 1..Len(value.val) |->
                        JsonString(<< value.val[i].key >>) \o << ":" >>
                          \o serde_json_to_string(value.val[i].value)])
           \o << "}" >>

\* how the subcommand left: Ok, an error value or a panic, and what
\* make_request did if it was reached
Exit(status, err, effects) == [status |-> status, err |-> err, effects |-> effects]

NoEffects == Effects("none", << >>, << >>)

\* the body arm of the exec subcommand
exec_body(engine, request, context, convert_body_string_to_json) ==
  LET body == request.request.body
  IN IF body # None /\ body[1].kind = "str" /\ convert_body_string_to_json
     THEN LET string_body == render_string(engine, File \o "#/body", body[1].val, context)
          IN IF ~string_body.ok THEN string_body
             ELSE LET parsed == serde_json_from_str(string_body.val)
                  IN Ok(Some(IF parsed = None THEN ValueString(string_body.val) ELSE parsed[1]),
                        string_body.engine)
     ELSE IF body # None
     THEN LET value == render_value(engine, File \o "#/body", body[1], context)
          IN IF ~value.ok THEN value ELSE Ok(Some(value.val), value.engine)
     ELSE Ok(None, engine)

\* Some(("exec", matches)) with --file: the manifest read from the file
main_exec(m, verbose, theme, world) ==
  IF kind(m) # "Request" THEN Exit("panic", "not yet implemented", NoEffects)
  ELSE
    LET request == m.request
        context == ValueObject(request.context)
        convert == get_annotation(m, "apix.io/convert-body-string-to-json")
        convert_body_string_to_json ==
          IF convert = None THEN FALSE
          ELSE IF bool_from_str(convert[1]) = None THEN FALSE
          ELSE bool_from_str(convert[1])[1]
        url_added == add_raw_template(TeraDefault, File \o "#/url", request.request.url)
        method_added ==
          add_raw_template(url_added.engine, File \o "#/method", request.request.method)
        url == render(method_added.engine, File \o "#/url", context)
        method == render(url.engine, File \o "#/method", context)
        headers == render_map(method.engine, File \o "#/headers", request.request.headers, context)
        body == exec_body(headers.engine, request, context, convert_body_string_to_json)
    IN IF ~url_added.ok THEN Exit("err", url_added.err, NoEffects)
       ELSE IF ~method_added.ok THEN Exit("err", method_added.err, NoEffects)
       ELSE IF ~url.ok THEN Exit("err", url.err, NoEffects)
       ELSE IF ~method.ok THEN Exit("err", method.err, NoEffects)
       ELSE IF ~headers.ok THEN Exit("err", headers.err, NoEffects)
       ELSE IF \E i \in 1..Len(headers.val) :
                 \/ HeaderName_from_str(headers.val[i].key) = None
                 \/ HeaderValue_from_str(headers.val[i].value) = None
       THEN Exit("panic", "unwrap", NoEffects)
       ELSE IF ~body.ok THEN Exit("err", body.err, NoEffects)
       ELSE LET header_map == [i \in 1..Len(headers.val) |->
                                 Entry(HeaderName_from_str(headers.val[i].key)[1],
                                       HeaderValue_from_str(headers.val[i].value)[1])]
                text == IF body.val = None THEN None
                        ELSE Some(AdvancedBody_String(serde_json_to_string(body.val[1])))
                effects == make_request(url.val, method.val, Some(header_map), None, text,
                                        RequestOptions(verbose, theme, TRUE, None, None, None, None),
                                        world)
            IN Exit(effects.status, "make_request", effects)

\* ------------------------------------------------------------------------
\* SpecMain: the exec subcommand on bounded manifest files
\* ------------------------------------------------------------------------
\* a manifest of kind Configuration
ConfigurationManifest ==
  ApixManifest("V1", << "configuration" >>, << >>, "Configuration",
               ApixRequest(<< >>, << >>, DefaultRequest))

ManifestFiles ==
  ParameterManifests \cup FieldManifests \cup BodyManifests \cup { ConfigurationManifest }

InitMain ==
  /\ call \in [manifest : ManifestFiles, verbose : BOOLEAN,
               world : { DefaultWorld, World("connect_error", None, << >>, "rw") }]
  /\ ret = << >>
  /\ PipelineIdle

\* apix exec --file <file>
MainExec ==
  /\ ret = << >>
  /\ ret' = << main_exec(call.manifest, call.verbose, "default", call.world) >>
  /\ UNCHANGED call
  /\ pipeline_unchanged

NextMain == MainExec

SpecMain == InitMain /\ [][NextMain]_vars

\* ------------------------------------------------------------------------
\* Properties of the exec subcommand
\* ------------------------------------------------------------------------
\* C16: executing a manifest that is no Request ends with the error value
\* 'Request manifest expected', with nothing rendered and nothing sent, and
\* never with a panic.
C16_NonRequestIsAnError ==
  (ret # << >> /\ kind(call.manifest) # "Request") =>
    /\ ret[1].status = "err"
    /\ ret[1].err = "Request manifest expected"
    /\ ret[1].effects = NoEffects

\* ------------------------------------------------------------------------
\* src/manifests/config.rs and src/config.rs
\* ------------------------------------------------------------------------
\* Result<Self>: the configuration's index, or an error
Loaded(index) == [ok |-> TRUE, index |-> index]

LoadError == [ok |-> FALSE, index |-> << >>]

\* a set_defaults that writes the theme whether or not one is there
ApixConfiguration_set_defaults_always(index) ==
  MapInsert(index, "theme", << "Monokai Extended" >>)

\* ApixConfiguration::set_defaults
ApixConfiguration_set_defaults(index) ==
  IF MapGet(index, "theme") = None THEN MapInsert(index, "theme", << "Monokai Extended" >>)
  ELSE index

ApixConfiguration_default == ApixConfiguration_set_defaults(<< >>)

\* ApixConfiguration::load_from_string: content is empty, a document that
\* does not parse to a manifest, or a manifest
ApixConfiguration_load_from_string(content) ==
  IF content.doc # "empty"
  THEN IF content.doc # "manifest" THEN LoadError
       ELSE IF content.kind = "Configuration"
       THEN Loaded(ApixConfiguration_set_defaults(content.index))
       ELSE LoadError
  ELSE Loaded(ApixConfiguration_default)

\* ApixConfig::set_defaults
ApixConfig_set_defaults(index) ==
  IF MapGet(index, "theme") = None THEN MapInsert(index, "theme", << "Coldark-Dark" >>)
  ELSE index

ApixConfig_default == ApixConfig_set_defaults(<< >>)

\* ApixConfig::load_from_string: content is empty, a document that does not
\* parse to a map of strings, or such a map
ApixConfig_load_from_string(content) ==
  IF content.doc # "empty"
  THEN IF content.doc # "map" THEN LoadError
       ELSE Loaded(ApixConfig_set_defaults(content.index))
  ELSE Loaded(ApixConfig_default)

\* ------------------------------------------------------------------------
\* SpecConfig: configurations constructed and loaded from bounded contents
\* ------------------------------------------------------------------------
ConfigKeys == { "theme", "rust", "editor" }

ConfigValues == { << "Coldark-Dark" >>, << "rust" >>, << >> }

\* IndexMap<String, String>: no key twice
ConfigIndexes ==
  { m \in SeqsUpTo({ Entry(k, v) : k \in ConfigKeys, v \in ConfigValues }, MaxConfigKeys) :
      \A i, j \in 1..Len(m) : i # j => m[i].key # m[j].key }

Content(doc, kind_, index) == [doc |-> doc, kind |-> kind_, index |-> index]

Contents ==
  { Content("empty", "None", << >>), Content("invalid", "None", << >>) }
    \cup { Content("manifest", "Configuration", i) : i \in ConfigIndexes }
    \cup { Content("manifest", k, << >>) : k \in { "Api", "Request", "Story", "None" } }
    \cup { Content("map", "None", i) : i \in ConfigIndexes }

InitConfig ==
  /\ call \in [type : { "ApixConfiguration", "ApixConfig" }, content : Contents]
  /\ ret = << >>
  /\ PipelineIdle

\* ApixConfiguration::default()
ConfigurationDefault ==
  /\ ret = << >> /\ call.type = "ApixConfiguration"
  /\ ret' = << [op |-> "default", result |-> Loaded(ApixConfiguration_default)] >>
  /\ UNCHANGED call
  /\ pipeline_unchanged

\* ApixConfiguration::load_from_string(content, err_msg)
ConfigurationLoad ==
  /\ ret = << >> /\ call.type = "ApixConfiguration"
  /\ ret' = << [op |-> "load", result |-> ApixConfiguration_load_from_string(call.content)] >>
  /\ UNCHANGED call
  /\ pipeline_unchanged

\* ApixConfig::default()
ConfigDefault ==
  /\ ret = << >> /\ call.type = "ApixConfig"
  /\ ret' = << [op |-> "default", result |-> Loaded(ApixConfig_default)] >>
  /\ UNCHANGED call
  /\ pipeline_unchanged

\* ApixConfig::load_from_string(content)
ConfigLoad ==
  /\ ret = << >> /\ call.type = "ApixConfig"
  /\ ret' = << [op |-> "load", result |-> ApixConfig_load_from_string(call.content)] >>
  /\ UNCHANGED call
  /\ pipeline_unchanged

NextConfig == ConfigurationDefault \/ ConfigurationLoad \/ ConfigDefault \/ ConfigLoad

SpecConfig == InitConfig /\ [][NextConfig]_vars

\* ------------------------------------------------------------------------
\* Properties of the configuration
\* ------------------------------------------------------------------------
DefaultTheme ==
  IF call.type = "ApixConfiguration" THEN << "Monokai Extended" >> ELSE << "Coldark-Dark" >>

\* C17: a configuration that was constructed or loaded has a theme.
\* default() and the loading of empty content give the default theme alone;
\* content without a theme gives the content's keys with their values and
\* the default theme; content with a theme gives the content as it is.
C17_AlwaysATheme ==
  (ret # << >> /\ ret[1].result.ok) =>
    LET index == ret[1].result.index
        given == call.content.index
    IN /\ MapGet(index, "theme") # None
       /\ IF ret[1].op = "default" \/ call.content.doc = "empty"
          THEN index = << Entry("theme", DefaultTheme) >>
          ELSE IF MapGet(given, "theme") = None
          THEN /\ MapGet(index, "theme") = Some(DefaultTheme)
               /\ Keys(index) = Keys(given) \cup { "theme" }
               /\ \A k \in Keys(given) : MapGet(index, k) = MapGet(given, k)
          ELSE index = given

\* a manifest with spec {rust: rust} loads as {rust: rust, theme: Monokai Extended}
C17_Witness ==
  /\ ret # << >>
  /\ call.type = "ApixConfiguration" /\ ret[1].op = "load"
  /\ call.content = Content("manifest", "Configuration", << Entry("rust", << "rust" >>) >>)
  /\ ret[1].result = Loaded(<< Entry("rust", << "rust" >>),
                               Entry("theme", << "Monokai Extended" >>) >>)

\* ------------------------------------------------------------------------
\* src/validators.rs and src/match_params.rs: "^([\w-]+):(.*)$"
\* ------------------------------------------------------------------------
\* a name:value string is a sequence of characters: a letter, a digit, the
\* underscore, the hyphen, the colon, a space, the equals sign, a line feed
Chars == { "n", "7", "_", "-", ":", " ", "=", "\n" }

\* [\w-]
WordOrHyphen(c) == c \in { "n", "7", "_", "-" }

\* the length of the longest prefix of [\w-] characters
RECURSIVE word_prefix(_)
word_prefix(text) ==
  IF text = << >> THEN 0
  ELSE IF WordOrHyphen(Head(text)) THEN 1 + word_prefix(Tail(text))
  ELSE 0

\* a pattern whose value group stops at a colon: "^([\w-]+):([^:]*)$"
regex_captures_one_colon(text) ==
  LET n == word_prefix(text)
  IN IF /\ n >= 1 /\ n < Len(text) /\ text[n + 1] = ":"
        /\ \A i \in (n + 2)..Len(text) : text[i] # "\n" /\ text[i] # ":"
     THEN Some(<< SubSeq(text, 1, n), SubSeq(text, n + 2, Len(text)) >>)
     ELSE None

\* RE.captures: groups 1 and 2 of "^([\w-]+):(.*)$", None without a match;
\* `.` is any character but the line feed and `$` is the end of the text
regex_captures(text) ==
  LET n == word_prefix(text)
  IN IF /\ n >= 1 /\ n < Len(text) /\ text[n + 1] = ":"
        /\ \A i \in (n + 2)..Len(text) : text[i] # "\n"
     THEN Some(<< SubSeq(text, 1, n), SubSeq(text, n + 2, Len(text)) >>)
     ELSE None

\* validate_param: RE.is_match
validate_param(param) ==
  IF regex_captures(param) # None THEN [ok |-> TRUE, err |-> ""]
  ELSE [ok |-> FALSE, err |-> "Bad format"]

\* StringTuple::from_str
StringTuple_from_str(query_string) ==
  LET header_split == regex_captures(query_string)
  IN IF header_split = None THEN [ok |-> FALSE, name |-> << >>, value |-> << >>]
     ELSE [ok |-> TRUE, name |-> header_split[1][1], value |-> header_split[1][2]]

\* ------------------------------------------------------------------------
\* SpecParam: a name:value argument validated by clap, then parsed
\* ------------------------------------------------------------------------
InitParam ==
  /\ call \in [param : SeqsUpTo(Chars, MaxParamLen)]
  /\ ret = << >>
  /\ PipelineIdle

\* Arg::validator(|param| validate_param(param, ..)) while the command line
\* is parsed
ValidateParam ==
  /\ ret = << >>
  /\ ret' = << [step |-> "validate", result |-> validate_param(call.param)] >>
  /\ UNCHANGED call
  /\ pipeline_unchanged

\* values_of_t::<StringTuple> on the arguments the validator let through
MatchParam ==
  /\ Len(ret) = 1 /\ ret[1].result.ok
  /\ ret' = Append(ret, [step |-> "from_str", result |-> StringTuple_from_str(call.param)])
  /\ UNCHANGED call
  /\ pipeline_unchanged

NextParam == ValidateParam \/ MatchParam

SpecParam == InitParam /\ [][NextParam]_vars

\* ------------------------------------------------------------------------
\* Properties of name:value arguments
\* ------------------------------------------------------------------------
\* the position of the first colon, 0 without one
RECURSIVE FirstColon(_, _)
FirstColon(text, i) ==
  IF i > Len(text) THEN 0
  ELSE IF text[i] = ":" THEN i
  ELSE FirstColon(text, i + 1)

\* a non-empty name of word characters and hyphens, then a colon
NameThenColon(text) ==
  LET c == FirstColon(text, 1)
  IN c > 1 /\ \A i \in 1..(c - 1) : WordOrHyphen(text[i])

\* the validator's error ends the parsing of the command line: the string
\* is never split; a string let through is split at its first colon
ParsedAtFirstColon ==
  /\ ~ret[1].result.ok => Len(ret) = 1 /\ ret[1].result.err = "Bad format"
  /\ Len(ret) = 2 =>
       LET c == FirstColon(call.param, 1)
       IN /\ ret[2].result.ok
          /\ ret[2].result.name = SubSeq(call.param, 1, c - 1)
          /\ ret[2].result.value = SubSeq(call.param, c + 1, Len(call.param))

\* C18 as stated: a string is accepted exactly when it is a non-empty name
\* of word characters and hyphens followed by a colon; the name is the text
\* before the first colon, the value all the text after it.
C18_AcceptedIffNameThenColon ==
  ret # << >> =>
    /\ ret[1].result.ok <=> NameThenColon(call.param)
    /\ ParsedAtFirstColon

\* C18, amended: a string is accepted exactly when it is a non-empty name
\* of word characters and hyphens followed by a colon and no line feed
\* comes after that colon; the name is the text before the first colon, the
\* value all the text after it, further colons included; a rejected string
\* is an error of the validator and is never split.
C18_AcceptedIffNameThenColonOneLine ==
  ret # << >> =>
    /\ ret[1].result.ok <=>
         /\ NameThenColon(call.param)
         /\ \A i \in 1..Len(call.param) : call.param[i] # "\n"
    /\ ParsedAtFirstColon

\* "-:=:" is the name "-" and the value "=:"
C18_Witness ==
  /\ Len(ret) = 2
  /\ call.param = << "-", ":", "=", ":" >>
  /\ ret[2].result = [ok |-> TRUE, name |-> << "-" >>, value |-> << "=", ":" >>]

\* ------------------------------------------------------------------------
\* Properties of the directives of handle_execute
\* ------------------------------------------------------------------------
ConvertAnnotation == get_annotation(manifest, "apix.io/convert-body-string-to-json")

\* the context RequestTemplate::new builds: manifest, parameters, env
BuiltContext ==
  ValueObject(SelectSeq(template.context.val, LAMBDA e : e.key # "context"))

\* C19: the convert flag of a built template is the annotation's value
\* after rendering against manifest, parameters and env: it is set exactly
\* when the annotation renders to "true".
C19_ConvertFlagFromRenderedAnnotation ==
  (BuiltOk /\ ConvertAnnotation # None) =>
    LET effective == Rendering(ConvertAnnotation[1], BuiltContext)
    IN template.convert_body_to_json =
         (effective.ok /\ bool_from_str(effective.val) = Some(TRUE))

\* ------------------------------------------------------------------------
\* SpecStream: the streaming arm of make_request applied to bounded urls,
\* options, answers and disks
\* ------------------------------------------------------------------------
StreamUrls ==
  { << "https://api.test/" >>, << "https://api.test/", "files/" >>,
    << "https://api.test/", "files/", "a.bin" >>, << "https://api.test/", "a.bin" >> }

InitStream ==
  /\ call \in [url : StreamUrls, options : OutputOptions,
               world : { World(n, None, b, d) : n \in { "ok", "body_error" },
                                                b \in { << >>, << "{}" >> },
                                                d \in { "rw", "ro" } }]
  /\ ret = << >>
  /\ PipelineIdle

\* if let Some("binary") = language { ... } of make_request
StreamResponse ==
  /\ ret = << >>
  /\ ret' = << stream_response(call.url, call.options, call.world, << >>, << >>) >>
  /\ UNCHANGED call
  /\ pipeline_unchanged

NextStream == StreamResponse

SpecStream == InitStream /\ [][NextStream]_vars

\* the arm ended Ok
Streamed == ret # << >> /\ ret[1].status = "ok"

\* the argument of the first event of that kind
ArgOf(op) == ret[1].out[CHOOSE i \in 1..Len(ret[1].out) : ret[1].out[i].op = op].arg

\* the name the download is given
ResolvedName == ArgOf("progress_download")

\* the body went to the file of the resolved name, and not to stdout
ToFile ==
  /\ Did("create_file") /\ ArgOf("create_file") = ResolvedName
  /\ Did("write_file") /\ ArgOf("write_file") = call.world.response.body
  /\ ~Did("stdout")

\* the body went to stdout, and no file was created
ToStdout ==
  /\ Did("stdout") /\ ArgOf("stdout") = call.world.response.body
  /\ ~Did("create_file") /\ ~Did("write_file")

ReachedBody ==
  /\ ret # << >>
  /\ client_proxy(call.options) # None
  /\ Method_from_str(to_uppercase(call.method)) # None

FileBody == call.body # None /\ call.body[1].kind = "File"

FileBytes == MapGet(call.world.files, call.body[1].val)

RECURSIVE BytesOf(_, _)
\* the bytes the events of that kind stand for, summed
BytesOf(op, out) ==
  IF out = << >> THEN 0
  ELSE (IF Head(out).op # op THEN 0
        ELSE IF op = "stream" THEN Len(Head(out).arg) ELSE Head(out).arg.bytes)
       + BytesOf(op, Tail(out))

\* C23: with a File body that cannot be opened, make_request fails with an
\* error that names the path and sends nothing, even when the url could not
\* be built into a request; with a file that opens, the request carries
\* Content-Length = the file's size, and the bytes reported to the upload
\* progress sum to the bytes streamed, which are the whole file once the
\* server has answered.
C23_FileBody ==
  (ReachedBody /\ FileBody) =>
    IF FileBytes = None
    THEN /\ ret[1].status = "err"
         /\ ret[1].sent = << >> /\ ret[1].out = << >>
         /\ SubSeq(ret[1].err, 2, 1 + Len(call.body[1].val)) = call.body[1].val
    ELSE /\ BytesOf("progress_upload", ret[1].out) = BytesOf("stream", ret[1].out)
         /\ ret[1].sent # << >> =>
               HeaderMap_get_all(ret[1].sent[1].headers, "content-length")
                 = << << ToString(Len(FileBytes[1])) >> >>
         /\ Answered => BytesOf("stream", ret[1].out) = Len(FileBytes[1])

C23_Witness ==
  /\ ReachedBody /\ FileBody /\ Answered
  /\ Len(FileBytes[1]) = 3 /\ call.world.frame = 2
  /\ BytesOf("progress_upload", ret[1].out) = 3
  /\ \E i \in 1..Len(ret[1].out) :
       ret[1].out[i] = Event("progress_upload", [path |-> << "body.bin" >>, bytes |-> 1])

\* the request could not be built although the file was missing
C23_WitnessMissing ==
  /\ ReachedBody /\ FileBody /\ FileBytes = None
  /\ Url_parse(call.url) = None
  /\ ret[1].err = open_error(<< "missing.bin" >>, "No such file or directory")

\* every event of the second kind comes after an event of the first kind
Before(first, second) ==
  \A i \in 1..Len(ret[1].out) :
    ret[1].out[i].op = second => \E j \in 1..(i - 1) : ret[1].out[j].op = first

\* the events that consume the body of the response
ConsumeOps == { "text", "stdout", "write_file" }

\* C24: in verbose mode the request is printed before it is sent, so it has
\* been printed whenever a request was sent, whatever failed afterwards; the
\* response is printed only after the send succeeded and before the body is
\* read; in non-verbose mode neither the request nor the response is
\* printed.
C24_PrintOrder ==
  ret # << >> =>
    IF call.options.verbose
    THEN /\ Before("print_request", "execute")
         /\ ret[1].sent # << >> => Did("print_request") /\ Did("execute")
         /\ Before("execute", "print_response")
         /\ Did("print_response") => call.world.net # "connect_error"
         /\ \A op \in ConsumeOps : Before("print_response", op)
    ELSE ~Did("print_request") /\ ~Did("print_response")

\* the send fails after the request was printed
C24_Witness ==
  /\ ret # << >> /\ call.options.verbose
  /\ call.world.net = "connect_error" /\ ret[1].status = "err"
  /\ Len(ret[1].out) = 4
  /\ ret[1].out[1].op = "print_request" /\ ret[1].out[4].op = "execute"

\* how many times the client was handed a request
Executions == Cardinality({ i \in 1..Len(ret[1].out) : ret[1].out[i].op = "execute" })

\* C25: handle_execute calls make_request at most once and make_request
\* hands at most one request to the client; once make_request has returned,
\* with an error or not, handle_execute is over and nothing more is sent.
C25_NoRetry ==
  /\ Len(requests) <= 1
  /\ ret # << >> =>
       /\ Len(requests) = 1 /\ pc = "done"
       /\ Len(ret[1].sent) <= 1 /\ Executions <= 1
       /\ result = Some(Ended(ret[1].status, "make_request", ""))

\* the connection failed: one call, one send, the error returned
C25_Witness ==
  /\ pc = "done" /\ Len(requests) = 1
  /\ result = Some(Ended("err", "make_request", ""))
  /\ ret # << >> /\ Len(ret[1].sent) = 1 /\ Executions = 1

\* C26: when a header of the manifest renders to an invalid header name or
\* value, handle_execute returns an error (it does not panic) and no
\* request is sent.
C26_HeaderErrorsReturned ==
  (result # None /\ result[1].at = "render_headers") =>
    result[1].status = "err" /\ requests = << >>

\* ------------------------------------------------------------------------
\* src/dialog.rs: the prompts, line by line
\* ------------------------------------------------------------------------
Prompted(input, rejected) == [input |-> input, rejected |-> rejected]

RECURSIVE interact_text_unvalidated(_, _, _)
\* a visible prompt that takes the first line typed
interact_text_unvalidated(schema, typed, rejected) ==
  IF typed = << >> THEN Prompted(None, rejected)
  ELSE IF Head(typed) = << >> THEN interact_text_unvalidated(schema, Tail(typed), rejected)
  ELSE Prompted(Some(Head(typed)), rejected)

RECURSIVE interact_text(_, _, _)
\* Input::validate_with(..).interact_text(): lines are read until one is not
\* empty and passes the validator; the others are refused and asked again.
\* The terminal fails when no line is left.
interact_text(schema, typed, rejected) ==
  IF typed = << >> THEN Prompted(None, rejected)
  ELSE IF Head(typed) = << >> THEN interact_text(schema, Tail(typed), rejected)
  ELSE IF schema_validate(schema, input_to_value(Head(typed)))
  THEN Prompted(Some(Head(typed)), rejected)
  ELSE interact_text(schema, Tail(typed), Append(rejected, Head(typed)))

RECURSIVE interact(_)
\* Password::interact(): the first line that is not empty
interact(typed) ==
  IF typed = << >> THEN Prompted(None, << >>)
  ELSE IF Head(typed) = << >> THEN interact(Tail(typed))
  ELSE Prompted(Some(Head(typed)), << >>)

\* <ApixParameter as Dialog>::ask at a terminal where `typed` is typed
ask_typed(parameter, typed) ==
  LET prompted == IF parameter.schema = None \/ ~parameter.required
                  THEN Prompted(None, << >>)
                  ELSE IF parameter.password THEN interact(typed)
                  ELSE interact_text(parameter.schema[1], typed, << >>)
  IN [answer |-> ask(parameter, prompted.input), rejected |-> prompted.rejected]

\* ------------------------------------------------------------------------
\* SpecAsk: ask applied to bounded parameters and typed lines
\* ------------------------------------------------------------------------
TypedLines == { << >>, << "a" >>, << "7" >>, << "\"", "a", "\"" >>, << "null" >> }

InitAsk ==
  /\ call \in [parameter : { ApixParameter("id", r, pw, sc) :
                                r \in BOOLEAN, pw \in BOOLEAN,
                                sc \in { None, Some("string"), Some("number"), Some("any"),
                                         Some("invalid") } },
               typed : SeqsUpTo(TypedLines, MaxTyped)]
  /\ ret = << >>
  /\ PipelineIdle

\* parameter.ask()
Ask ==
  /\ ret = << >>
  /\ ret' = << ask_typed(call.parameter, call.typed) >>
  /\ UNCHANGED call
  /\ pipeline_unchanged

NextAsk == Ask

SpecAsk == InitAsk /\ [][NextAsk]_vars

\* the schema of the parameter compiles
Compiles == call.parameter.schema # None /\ call.parameter.schema[1] # "invalid"

\* the value a typed line stands for at the visible prompt
Candidate(line) == input_to_value(line)

Valid(line) == schema_validate(call.parameter.schema[1], Candidate(line))

\* the lines typed that are not empty
Lines == SelectSeq(call.typed, LAMBDA line : line # << >>)

\* C27: for a required parameter whose schema compiles, asked at a visible
\* prompt, the value returned validates against the schema and is the first
\* typed line that does, read as JSON or else as a literal string; every
\* line before it was refused and none of the refused lines validates. At a
\* password prompt the first line is returned as a string, whether it parses
\* as JSON or validates, and nothing is refused.
C27_PromptValidates ==
  (ret # << >> /\ Compiles /\ call.parameter.required /\ ret[1].answer.status = "ok") =>
    IF call.parameter.password
    THEN /\ ret[1].answer.val = ValueString(Lines[1])
         /\ ret[1].rejected = << >>
    ELSE /\ schema_validate(call.parameter.schema[1], ret[1].answer.val)
         /\ \A i \in 1..Len(ret[1].rejected) :
              ~Valid(ret[1].rejected[i]) /\ ret[1].rejected[i] = Lines[i]
         /\ ret[1].answer.val = Candidate(Lines[Len(ret[1].rejected) + 1])

\* a number is asked: "a" and "null" are refused, then 7 is returned
C27_Witness ==
  /\ ret # << >> /\ ~call.parameter.password /\ call.parameter.required
  /\ call.parameter.schema = Some("number")
  /\ call.typed = << << "a" >>, << "null" >>, << "7" >> >>
  /\ ret[1].rejected = << << "a" >>, << "null" >> >>
  /\ ret[1].answer = Answer("ok", ValueNumber(7))

\* ------------------------------------------------------------------------
\* src/main.rs: the config subcommands and the CONFIG mutex
\* ------------------------------------------------------------------------
\* IndexMap::remove: the last entry takes the place of the one removed
IndexMap_remove(entries, k) ==
  LET i == IndexOfKey(entries, k, 1)
      last == Len(entries)
  IN IF i = 0 THEN entries
     ELSE IF i = last THEN SubSeq(entries, 1, last - 1)
     ELSE SubSeq([entries EXCEPT ![i] = entries[last]], 1, last - 1)

\* std::sync::Mutex::lock on the one thread of main: the guard is given when
\* no guard is alive; with a guard alive the call does not return, it
\* deadlocks or panics
Mutex_lock(held) == IF held THEN { "deadlock", "panic" } ELSE { "acquired" }

\* the process: where it is, whether a guard of CONFIG is alive, the
\* configuration behind the mutex, the file, what was printed
Process(at, held, config, file, out) ==
  [pc |-> at, held |-> held, config |-> config, file |-> file, out |-> out]

\* the call stopped in lock()
Stuck(how) == [ret EXCEPT !.pc = how]

\* ApixConfiguration::save on the disk of the call
save(process, disk) ==
  IF disk = "rw" THEN [process EXCEPT !.pc = "done", !.file = process.config]
  ELSE [process EXCEPT !.pc = "err"]

CommandKeys == { "theme", "editor" }

InitCommand ==
  /\ call \in [command : { "list", "set", "get", "delete" },
               key : CommandKeys, value : { << "a" >>, << "b" >> },
               loaded : { ApixConfiguration_set_defaults(i) : i \in ConfigIndexes },
               disk : { "rw", "ro" }]
  /\ ret = Process("main", FALSE, call.loaded, call.loaded, << >>)
  /\ PipelineIdle

\* let theme = CONFIG.lock().unwrap().get("theme").unwrap().clone();
ReadTheme ==
  /\ ret.pc = "main"
  /\ \E outcome \in Mutex_lock(ret.held) :
       ret' = IF outcome # "acquired" THEN Stuck(outcome)
              ELSE [ret EXCEPT !.pc = call.command]
  /\ UNCHANGED call
  /\ pipeline_unchanged

\* Some(("list", _)) => pretty_print(to_string(&CONFIG.lock().unwrap().clone())..)
ConfigList ==
  /\ ret.pc = "list"
  /\ \E outcome \in Mutex_lock(ret.held) :
       ret' = IF outcome # "acquired" THEN Stuck(outcome)
              ELSE [ret EXCEPT !.pc = "done", !.out = Append(@, Event("list", ret.config))]
  /\ UNCHANGED call
  /\ pipeline_unchanged

\* if let Some(old_value) = CONFIG.lock().unwrap().set(key, value) {..} else {..}
\* the guard of the scrutinee is dropped at the end of the if let
ConfigSet ==
  /\ ret.pc = "set"
  /\ \E outcome \in Mutex_lock(ret.held) :
       ret' = IF outcome # "acquired" THEN Stuck(outcome)
              ELSE [ret EXCEPT !.pc = "set_save",
                               !.config = MapInsert(@, call.key, call.value),
                               !.out = Append(@, Event(IF MapGet(ret.config, call.key) # None
                                                       THEN "replaced" ELSE "set",
                                                       call.key))]
  /\ UNCHANGED call
  /\ pipeline_unchanged

\* CONFIG.lock().unwrap().save()?; after the if let of set
ConfigSetSave ==
  /\ ret.pc = "set_save"
  /\ \E outcome \in Mutex_lock(ret.held) :
       ret' = IF outcome # "acquired" THEN Stuck(outcome) ELSE save(ret, call.disk)
  /\ UNCHANGED call
  /\ pipeline_unchanged

\* if let Some(value) = CONFIG.lock().unwrap().get(key) { pretty_print(..)?; }
ConfigGet ==
  /\ ret.pc = "get"
  /\ \E outcome \in Mutex_lock(ret.held) :
       ret' = IF outcome # "acquired" THEN Stuck(outcome)
              ELSE IF MapGet(ret.config, call.key) = None THEN [ret EXCEPT !.pc = "done"]
              ELSE [ret EXCEPT !.pc = "done", !.out = Append(@, Event("get", call.key))]
  /\ UNCHANGED call
  /\ pipeline_unchanged

\* if let Some(value) = CONFIG.lock().unwrap().delete(key) { println!; pretty_print
\* the guard of the scrutinee is alive in the block of the if let
ConfigDelete ==
  /\ ret.pc = "delete"
  /\ \E outcome \in Mutex_lock(ret.held) :
       ret' = IF outcome # "acquired" THEN Stuck(outcome)
              ELSE IF MapGet(ret.config, call.key) = None THEN [ret EXCEPT !.pc = "done"]
              ELSE [ret EXCEPT !.pc = "delete_save", !.held = TRUE,
                               !.config = IndexMap_remove(@, call.key),
                               !.out = Append(@, Event("deleted", call.key))]
  /\ UNCHANGED call
  /\ pipeline_unchanged

\* CONFIG.lock().unwrap().save()?; inside the block of the if let of delete
ConfigDeleteSave ==
  /\ ret.pc = "delete_save"
  /\ \E outcome \in Mutex_lock(ret.held) :
       ret' = IF outcome # "acquired" THEN Stuck(outcome)
              ELSE [save(ret, call.disk) EXCEPT !.held = FALSE]
  /\ UNCHANGED call
  /\ pipeline_unchanged

NextCommand ==
  \/ ReadTheme
  \/ ConfigList
  \/ ConfigSet
  \/ ConfigSetSave
  \/ ConfigGet
  \/ ConfigDelete
  \/ ConfigDeleteSave

SpecCommand == InitCommand /\ [][NextCommand]_vars

\* C28: in the config subcommands the CONFIG mutex is never requested
\* while a guard taken earlier in the command is alive, so no command stops
\* in lock(); `config delete` of a key that is there, once over on a disk
\* that can be written, has removed the key and saved the configuration,
\* and `config set` has saved the configuration with the key inserted.
C28_NoLockWhileHeld ==
  /\ ret.pc \notin { "deadlock", "panic" }
  /\ ret.pc \in { "set_save", "delete_save" } => ~ret.held
  /\ (ret.pc = "done" /\ call.command = "delete" /\ MapGet(call.loaded, call.key) # None) =>
       MapGet(ret.config, call.key) = None /\ ret.file = ret.config
  /\ (ret.pc = "done" /\ call.command = "set") =>
       MapGet(ret.file, call.key) = Some(call.value)

\* ------------------------------------------------------------------------
\* Properties of the template names
\* ------------------------------------------------------------------------
RECURSIVE Registrations(_, _)
\* the templates a render_value registers, in the order it meets the
\* string leaves: the name derived for the leaf and the leaf's content
Registrations(name, value) ==
  CASE value.kind = "str" -> << Entry(name, value.val) >>
    [] value.kind = "arr" ->
         IF value.val = << >> THEN << >>
         ELSE Registrations(name, ValueArray(SubSeq(value.val, 1, Len(value.val) - 1)))
              \o Registrations(name \o "." \o ToString(Len(value.val) - 1),
                               value.val[Len(value.val)])
    [] value.kind = "obj" ->
         IF value.val = << >> THEN << >>
         ELSE Registrations(name, ValueObject(SubSeq(value.val, 1, Len(value.val) - 1)))
              \o Registrations(name \o "." \o value.val[Len(value.val)].key,
                               value.val[Len(value.val)].value)
    [] OTHER -> << >>

RECURSIVE Registered(_, _)
\* the registry once every registration was made, a later one over an
\* earlier one of the same name
Registered(engine, registrations) ==
  IF registrations = << >> THEN engine
  ELSE Registered(MapInsert(engine, Head(registrations).key, Head(registrations).value),
                  Tail(registrations))

\* the engine the i-th render started with
EngineBefore(i) == IF i = 1 THEN TeraDefault ELSE ret[i - 1].engine

\* a name of the i-th render is registered twice, within the render or
\* since an earlier render on the same engine
NameReused(i) ==
  LET regs == Registrations(call.name, RenderInput(i))
  IN \/ \E j, k \in 1..Len(regs) : j # k /\ regs[j].key = regs[k].key
     \/ \E j \in 1..Len(regs) : MapGet(EngineBefore(i), regs[j].key) # None

\* C29: when a render registers a template name again, within one value
\* (key "a.b" and path a -> b, key "a.0" and element 0 of a) or after an
\* earlier render on the same engine, every leaf of its output is still the
\* rendering of that leaf's own content, and the registry holds under each
\* name the content registered last.
C29_OwnContentUnderReusedNames ==
  \A i \in 1..Len(ret) :
    (ret[i].ok /\ NameReused(i)) =>
      /\ LeafOnly(RenderInput(i), ret[i].val, call.context)
      /\ ret[i].engine = Registered(EngineBefore(i), Registrations(call.name, RenderInput(i)))

\* {"a.b": "{{context.test}}", "a": {"b": "a"}}: both leaves are test.a.b
C29_Witness ==
  /\ Len(ret) >= 1 /\ ret[1].ok /\ NameReused(1)
  /\ call.value = ValueObject(<< Entry("a.b", TestTag),
                                 Entry("a", ValueObject(<< Entry("b", ValueString(<< "a" >>)) >>)) >>)
  /\ ret[1].val = ValueObject(<< Entry("a.b", ValueString(<< "t" >>)),
                                 Entry("a", ValueObject(<< Entry("b", ValueString(<< "a" >>)) >>)) >>)
  /\ MapGet(ret[1].engine, "test.a.b") = Some(<< "a" >>)

\* C30: the convert flag of a built template is true exactly when the
\* annotation apix.io/convert-body-string-to-json is there with the text
\* "true"; without the annotation and with any other text ("false", "True",
\* "1", "yes", the empty text, a template) it is false, and
\* RequestTemplate::new, when it has no parameter to ask for, returns Ok
\* whatever the annotation holds.
C30_ConvertFlagOnlyLiteralTrue ==
  steps # << >> =>
    /\ BuiltOk => (template.convert_body_to_json <=> ConvertAnnotation = Some(<< "true" >>))
    /\ (kind(manifest) = "Request" /\ asked = << >>) => BuiltOk

C30_Witness ==
  /\ BuiltOk /\ asked = << >>
  /\ ConvertAnnotation = Some(<< "1" >>)
  /\ ~template.convert_body_to_json
  /\ pc = "done" /\ requests # << >>

====
